---- MODULE Spec2Model ----
(***************************************************************************)
(* Tibit ONU adapter (voltha/adapters/tibit_onu/tibit_onu.py) and the      *)
(* adapter agent it talks to (voltha/core/adapter_agent.py).               *)
(*                                                                         *)
(* The adapter runs on a single-threaded reactor: a handler runs without   *)
(* interruption until it returns or suspends on a Deferred that has not    *)
(* fired.  Every action below is one such uninterrupted run.               *)
(***************************************************************************)
EXTENDS Integers, Sequences, FiniteSets, TLC

(***************************************************************************)
(* Bounds of the model.                                                    *)
(***************************************************************************)
\* number of adopt_device / update_flows_bulk invocations
MaxTasks == 2
\* number of frames the proxy transport hands to the agent
MaxFrames == 3
\* number of attribute records in a buffer handed to an attribute walk
MaxRecords == 2
\* number of bytes after the OUI in a frame handed to the classification
MaxTail == 2
\* core-facing operations called one after the other
MaxCalls == 3
\* depth at which the interpreter ends a recursion with a RuntimeError
RecursionLimit == 3

(***************************************************************************)
(* Frames.  A received frame is seen by the adapter through               *)
(* frame.payload: whether it has a body, payload.opcode, and               *)
(* payload.body.load (a byte string, here a sequence of 0..255).           *)
(***************************************************************************)
RxedOamMsgTypeEnum ==
    ("Unknown" :> 0) @@ ("Info" :> 1) @@ ("Event Notification" :> 2) @@
    ("DPoE Get Response" :> 3) @@ ("DPoE Set Response" :> 4) @@
    ("DPoE File Transfer" :> 5) @@ ("OMCI Message" :> 6)

Frame(has_body, opcode, load) ==
    [has_body |-> has_body, opcode |-> opcode, load |-> load]

\* struct.unpack_from(fmt, buf, offset) needs calcsize(fmt) bytes at offset,
\* and raises struct.error otherwise.  Offsets are 0-based as in the source.
CanUnpack(loadstr, offset, size) == offset + size <= Len(loadstr)
UnpackB(loadstr, offset) == loadstr[offset + 1]
UnpackH(loadstr, offset) == loadstr[offset + 1] * 256 + loadstr[offset + 2]
\* (oui_hi << 16) | oui_lo  after  unpack_from('>BH', ...)
UnpackOui(loadstr, offset) ==
    UnpackB(loadstr, offset) * 65536 + UnpackH(loadstr, offset + 1)

\* The response code table imported from EOAM_TLV: the codes it has an
\* entry for.  Indexing it with another value raises KeyError.
DPoEVariableResponseCodes == 128..255

\* A faulty variant of _voltha_get_oam_msg_type: the ITU OUI counts as an
\* OMCI message only when bytes follow it.
_voltha_get_oam_msg_type_OmciNeedsBody(frame) ==
    LET Returns(name) == [error |-> "", respType |-> RxedOamMsgTypeEnum[name]]
        Raises(e) == [error |-> e, respType |-> RxedOamMsgTypeEnum["Unknown"]]
    IN
    IF ~frame.has_body THEN Returns("Unknown")
    ELSE IF frame.opcode = 1 THEN Returns("Event Notification")
    ELSE IF frame.opcode # 254 THEN Returns("Unknown")
    ELSE IF ~CanUnpack(frame.load, 0, 3) THEN Raises("struct.error")
    ELSE IF UnpackOui(frame.load, 0) = 6567
    THEN IF Len(frame.load) > 3 THEN Returns("OMCI Message") ELSE Returns("Unknown")
    ELSE IF UnpackOui(frame.load, 0) \notin {4096, 2812437} THEN Returns("Unknown")
    ELSE IF ~CanUnpack(frame.load, 3, 1) THEN Raises("struct.error")
    ELSE IF UnpackB(frame.load, 3) = 2 THEN Returns("DPoE Get Response")
    ELSE IF UnpackB(frame.load, 3) = 4 THEN Returns("DPoE Set Response")
    ELSE IF UnpackB(frame.load, 3) = 9 THEN Returns("DPoE File Transfer")
    ELSE Returns("Unknown")

\* A faulty variant of _voltha_get_oam_msg_type: opcode 0x00 is reported as
\* an Info PDU.
_voltha_get_oam_msg_type_InfoOpcode(frame) ==
    LET Returns(name) == [error |-> "", respType |-> RxedOamMsgTypeEnum[name]]
        Raises(e) == [error |-> e, respType |-> RxedOamMsgTypeEnum["Unknown"]]
    IN
    IF ~frame.has_body THEN Returns("Unknown")
    ELSE IF frame.opcode = 1 THEN Returns("Event Notification")
    ELSE IF frame.opcode = 0 THEN Returns("Info")
    ELSE IF frame.opcode # 254 THEN Returns("Unknown")
    ELSE IF ~CanUnpack(frame.load, 0, 3) THEN Raises("struct.error")
    ELSE IF UnpackOui(frame.load, 0) = 6567 THEN Returns("OMCI Message")
    ELSE IF UnpackOui(frame.load, 0) \notin {4096, 2812437} THEN Returns("Unknown")
    ELSE IF ~CanUnpack(frame.load, 3, 1) THEN Raises("struct.error")
    ELSE IF UnpackB(frame.load, 3) = 2 THEN Returns("DPoE Get Response")
    ELSE IF UnpackB(frame.load, 3) = 4 THEN Returns("DPoE Set Response")
    ELSE IF UnpackB(frame.load, 3) = 9 THEN Returns("DPoE File Transfer")
    ELSE Returns("Unknown")

\* _voltha_get_oam_msg_type: [error, respType]; error is "" when the call
\* returns, else the exception it raises.
_voltha_get_oam_msg_type(frame) ==
    IF ~frame.has_body
    THEN [error |-> "", respType |-> RxedOamMsgTypeEnum["Unknown"]]
    ELSE IF frame.opcode = 254
    THEN IF ~CanUnpack(frame.load, 0, 3)
         THEN [error |-> "struct.error", respType |-> RxedOamMsgTypeEnum["Unknown"]]
         ELSE LET oui == UnpackOui(frame.load, 0) IN
              IF oui = 6567        \* 0x0019A7
              THEN [error |-> "", respType |-> RxedOamMsgTypeEnum["OMCI Message"]]
              ELSE IF oui = 4096 \/ oui = 2812437      \* 0x001000, 0x2AEA15
              THEN IF ~CanUnpack(frame.load, 3, 1)
                   THEN [error |-> "struct.error",
                         respType |-> RxedOamMsgTypeEnum["Unknown"]]
                   ELSE LET dpoeOpcode == UnpackB(frame.load, 3) IN
                        [error |-> "",
                         respType |->
                            IF dpoeOpcode = 2
                            THEN RxedOamMsgTypeEnum["DPoE Get Response"]
                            ELSE IF dpoeOpcode = 4
                            THEN RxedOamMsgTypeEnum["DPoE Set Response"]
                            ELSE IF dpoeOpcode = 9
                            THEN RxedOamMsgTypeEnum["DPoE File Transfer"]
                            ELSE RxedOamMsgTypeEnum["Unknown"]]
              ELSE [error |-> "", respType |-> RxedOamMsgTypeEnum["Unknown"]]
    ELSE IF frame.opcode = 1
    THEN [error |-> "", respType |-> RxedOamMsgTypeEnum["Event Notification"]]
    ELSE [error |-> "", respType |-> RxedOamMsgTypeEnum["Unknown"]]

\* The record the attribute walk returns: (retVal, branch, leaf, length),
\* or the exception that ended it.
WalkResult(error, retVal, branch, leaf, length) ==
    [error |-> error, rc |-> retVal, branch |-> branch, leaf |-> leaf,
     status |-> length]

\* A faulty variant of SetRespAttrsLoop: the value bytes of a record are
\* not skipped.
RECURSIVE SetRespAttrsLoop_NoSkip(_, _, _, _, _)
SetRespAttrsLoop_NoSkip(loadstr, bytesRead, branch, leaf, length) ==
    IF ~(bytesRead <= Len(loadstr))
    THEN WalkResult("", TRUE, branch, leaf, length)
    ELSE IF ~CanUnpack(loadstr, bytesRead, 3)
    THEN WalkResult("struct.error", TRUE, branch, leaf, length)
    ELSE LET b == UnpackB(loadstr, bytesRead)
             l == UnpackH(loadstr, bytesRead + 1) IN
         IF b = 0
         THEN WalkResult("", TRUE, b, l, length)
         ELSE IF ~CanUnpack(loadstr, bytesRead + 3, 1)
         THEN WalkResult("struct.error", TRUE, b, l, length)
         ELSE LET len == UnpackB(loadstr, bytesRead + 3) IN
              IF len >= 128
              THEN IF len > 128
                   THEN WalkResult("", FALSE, b, l, len)
                   ELSE SetRespAttrsLoop_NoSkip(loadstr, bytesRead + 4, b, l, len)
              ELSE SetRespAttrsLoop_NoSkip(loadstr, bytesRead + 4, b, l, len)

\* A faulty variant of SetRespAttrsLoop: a record answered 0x80 is taken
\* to carry 128 value bytes.
RECURSIVE SetRespAttrsLoop_Skips0x80(_, _, _, _, _)
SetRespAttrsLoop_Skips0x80(loadstr, bytesRead, branch, leaf, length) ==
    IF ~(bytesRead <= Len(loadstr))
    THEN WalkResult("", TRUE, branch, leaf, length)
    ELSE IF ~CanUnpack(loadstr, bytesRead, 3)
    THEN WalkResult("struct.error", TRUE, branch, leaf, length)
    ELSE LET b == UnpackB(loadstr, bytesRead)
             l == UnpackH(loadstr, bytesRead + 1) IN
         IF b = 0
         THEN WalkResult("", TRUE, b, l, length)
         ELSE IF ~CanUnpack(loadstr, bytesRead + 3, 1)
         THEN WalkResult("struct.error", TRUE, b, l, length)
         ELSE LET len == UnpackB(loadstr, bytesRead + 3) IN
              IF len >= 128
              THEN IF len > 128
                   THEN WalkResult("", FALSE, b, l, len)
                   ELSE SetRespAttrsLoop_Skips0x80(loadstr, bytesRead + 4 + len, b, l, len)
              ELSE SetRespAttrsLoop_Skips0x80(loadstr, bytesRead + 4 + len, b, l, len)

\* _voltha_check_set_resp_attrs: one iteration of the while loop per call.
RECURSIVE SetRespAttrsLoop(_, _, _, _, _)
SetRespAttrsLoop(loadstr, bytesRead, branch, leaf, length) ==
    IF ~(bytesRead <= Len(loadstr))
    THEN WalkResult("", TRUE, branch, leaf, length)
    ELSE IF ~CanUnpack(loadstr, bytesRead, 3)
    THEN WalkResult("struct.error", TRUE, branch, leaf, length)
    ELSE LET b == UnpackB(loadstr, bytesRead)
             l == UnpackH(loadstr, bytesRead + 1) IN
         IF b = 0
         THEN WalkResult("", TRUE, b, l, length)
         ELSE IF ~CanUnpack(loadstr, bytesRead + 3, 1)
         THEN WalkResult("struct.error", TRUE, b, l, length)
         ELSE LET len == UnpackB(loadstr, bytesRead + 3) IN
              IF len >= 128
              THEN IF len \notin DPoEVariableResponseCodes
                   THEN WalkResult("KeyError", TRUE, b, l, len)
                   ELSE IF len > 128
                   THEN WalkResult("", FALSE, b, l, len)
                   ELSE SetRespAttrsLoop(loadstr, bytesRead + 4, b, l, len)
              ELSE SetRespAttrsLoop(loadstr, bytesRead + 4 + len, b, l, len)

_voltha_check_set_resp_attrs(loadstr, startOfTlvs) ==
    SetRespAttrsLoop(loadstr, startOfTlvs, 0, 0, 0)

(***************************************************************************)
(* _voltha_handle_get_value, lines 750-802.                                *)
(* A value read with '>B', '>H', '>I' or '>Q' is an integer; it is kept as *)
(* its big-endian bytes without leading zero bytes, so that it keeps its   *)
(* full width.  A value read with '>Ns' is a byte string.                  *)
(***************************************************************************)
RECURSIVE StripZeros(_)
StripZeros(bytes) ==
    IF bytes # <<>> /\ Head(bytes) = 0 THEN StripZeros(Tail(bytes)) ELSE bytes

\* A faulty variant of IntValue: the bytes are read least significant first.
IntValue_LittleEndian(bytes) ==
    [type |-> "int",
     bytes |-> StripZeros([i \in 1..Len(bytes) |-> bytes[Len(bytes) + 1 - i]])]

IntValue(bytes) == [type |-> "int", bytes |-> StripZeros(bytes)]
StrValue(bytes) == [type |-> "str", bytes |-> bytes]
Bytes(loadstr, offset, size) == SubSeq(loadstr, offset + 1, offset + size)

\* A faulty variant of GetValueResult: the value read last is returned also
\* when the walk fails.
GetValueResult_KeepsValue(error, retVal, bytesRead, value, branch, leaf) ==
    [error |-> error, retVal |-> retVal, bytesRead |-> bytesRead,
     value |-> value, branch |-> branch, leaf |-> leaf]

\* what the function returns: (retVal, bytesRead, value, branch, leaf), with
\* lines 799-800 applied; or the exception that ended it
GetValueResult(error, retVal, bytesRead, value, branch, leaf) ==
    [error |-> error, retVal |-> retVal, bytesRead |-> bytesRead,
     value |-> IF retVal THEN value ELSE IntValue(<<>>),
     branch |-> branch, leaf |-> leaf]

\* A faulty variant of GetValueLoop: branch 0xD6 is treated like any other.
RECURSIVE GetValueLoop_NoD6Skip(_, _, _, _, _, _, _)
GetValueLoop_NoD6Skip(loadstr, bytesRead, value, branch, leaf, queryBranch, queryLeaf) ==
    IF ~(bytesRead <= Len(loadstr))
    THEN GetValueResult("", FALSE, bytesRead, value, branch, leaf)
    ELSE IF ~CanUnpack(loadstr, bytesRead, 3)
    THEN GetValueResult("struct.error", FALSE, bytesRead, value, branch, leaf)
    ELSE
    LET b == UnpackB(loadstr, bytesRead)
        l == UnpackH(loadstr, bytesRead + 1)
    IN
    IF b = 0
    THEN GetValueResult("", FALSE, bytesRead, value, b, l)
    ELSE IF ~CanUnpack(loadstr, bytesRead + 3, 1)
    THEN GetValueResult("struct.error", FALSE, bytesRead + 3, value, b, l)
    ELSE
    LET len == UnpackB(loadstr, bytesRead + 3)
        at == bytesRead + 4
        \* the length the value is read with, and the one line 789 sees
        length == IF len >= 128 THEN 0 ELSE IF len = 0 THEN 128 ELSE len
        v == IF len \in {1, 2, 4, 8}
             THEN IntValue(Bytes(loadstr, at, len))
             ELSE IF len >= 128 THEN value
             ELSE StrValue(Bytes(loadstr, at, length))
        next == IF length > 0 THEN at + length ELSE at
    IN
    IF len >= 128 /\ len \notin DPoEVariableResponseCodes
    THEN GetValueResult("KeyError", FALSE, at, value, b, l)
    ELSE IF ~CanUnpack(loadstr, at, length)
    THEN GetValueResult("struct.error", FALSE, at, value, b, l)
    ELSE IF /\ TRUE
            /\ \/ (queryBranch = 0 /\ queryLeaf = 0)
               \/ (queryBranch = b /\ queryLeaf = l)
    THEN GetValueResult("", length > 0, next, v, b, l)
    ELSE GetValueLoop_NoD6Skip(loadstr, next, v, b, l, queryBranch, queryLeaf)

\* one iteration of the while loop per call
RECURSIVE GetValueLoop(_, _, _, _, _, _, _)
GetValueLoop(loadstr, bytesRead, value, branch, leaf, queryBranch, queryLeaf) ==
    IF ~(bytesRead <= Len(loadstr))
    THEN GetValueResult("", FALSE, bytesRead, value, branch, leaf)
    ELSE IF ~CanUnpack(loadstr, bytesRead, 3)
    THEN GetValueResult("struct.error", FALSE, bytesRead, value, branch, leaf)
    ELSE
    LET b == UnpackB(loadstr, bytesRead)
        l == UnpackH(loadstr, bytesRead + 1)
    IN
    IF b = 0
    THEN GetValueResult("", FALSE, bytesRead, value, b, l)
    ELSE IF ~CanUnpack(loadstr, bytesRead + 3, 1)
    THEN GetValueResult("struct.error", FALSE, bytesRead + 3, value, b, l)
    ELSE
    LET len == UnpackB(loadstr, bytesRead + 3)
        at == bytesRead + 4
        \* the length the value is read with, and the one line 789 sees
        length == IF len >= 128 THEN 0 ELSE IF len = 0 THEN 128 ELSE len
        v == IF len \in {1, 2, 4, 8}
             THEN IntValue(Bytes(loadstr, at, len))
             ELSE IF len >= 128 THEN value
             ELSE StrValue(Bytes(loadstr, at, length))
        next == IF length > 0 THEN at + length ELSE at
    IN
    IF len >= 128 /\ len \notin DPoEVariableResponseCodes
    THEN GetValueResult("KeyError", FALSE, at, value, b, l)
    ELSE IF ~CanUnpack(loadstr, at, length)
    THEN GetValueResult("struct.error", FALSE, at, value, b, l)
    ELSE IF /\ b # 214              \* 0xD6
            /\ \/ (queryBranch = 0 /\ queryLeaf = 0)
               \/ (queryBranch = b /\ queryLeaf = l)
    THEN GetValueResult("", length > 0, next, v, b, l)
    ELSE GetValueLoop(loadstr, next, v, b, l, queryBranch, queryLeaf)

_voltha_handle_get_value(loadstr, startOfTlvs, queryBranch, queryLeaf) ==
    GetValueLoop(loadstr, startOfTlvs, IntValue(<<>>), 0, 0, queryBranch, queryLeaf)

\* _voltha_check_set_resp: (rc, branch, leaf, status) of a frame.
_voltha_check_set_resp(frame) ==
    IF ~frame.has_body \/ frame.opcode # 254
    THEN WalkResult("", FALSE, 0, 0, 0)
    ELSE IF ~CanUnpack(frame.load, 0, 3)
    THEN WalkResult("struct.error", FALSE, 0, 0, 0)
    ELSE LET oui == UnpackOui(frame.load, 0) IN
         IF ~(oui = 4096 \/ oui = 2812437)
         THEN WalkResult("", FALSE, 0, 0, 0)
         ELSE IF ~CanUnpack(frame.load, 3, 1)
         THEN WalkResult("struct.error", FALSE, 0, 0, 0)
         ELSE IF UnpackB(frame.load, 3) # 4
         THEN WalkResult("NameError", FALSE, 0, 0, 0)
         ELSE LET r == _voltha_check_set_resp_attrs(frame.load, 4) IN
              IF r.error = "" /\ ~r.rc /\ r.status \notin DPoEVariableResponseCodes
              THEN [r EXCEPT !.error = "KeyError"]
              ELSE r

\* _voltha_handle_oam_event: reads a 7-byte event header, then formats its
\* log lines; the format string of the second line ends in a lone '%'.
_voltha_handle_oam_event(loadstr, startOfEvent) ==
    IF ~CanUnpack(loadstr, startOfEvent, 7)
    THEN "struct.error"
    ELSE "ValueError"

\* _voltha_handle_omci only logs.
_voltha_handle_omci(loadstr, startOfEvent) == ""

\* _voltha_check_resp: "" when it returns, else the exception it raises.
_voltha_check_resp(frame) ==
    IF ~frame.has_body
    THEN ""
    ELSE IF frame.opcode = 254
    THEN IF ~CanUnpack(frame.load, 0, 3)
         THEN "struct.error"
         ELSE IF UnpackOui(frame.load, 0) = 6567
              THEN _voltha_handle_omci(frame.load, 3)
              ELSE ""
    ELSE IF frame.opcode = 1
    THEN _voltha_handle_oam_event(frame.load, 0)
    ELSE ""

(***************************************************************************)
(* Devices, addresses and the data model behind root_proxy.                *)
(***************************************************************************)
ProxyAddress(device_id, channel_id) ==
    [device_id |-> device_id, channel_id |-> channel_id]

\* A Device message.  An unset string field reads "" and an unset number 0,
\* as protobuf fields do.
Device(id, parent_id, parent_port_no, proxy_address) ==
    [id |-> id, parent_id |-> parent_id, parent_port_no |-> parent_port_no,
     proxy_address |-> proxy_address, vendor |-> "", model |-> "",
     hardware_version |-> "", firmware_version |-> "",
     software_version |-> "", serial_number |-> "",
     connect_status |-> "UNKNOWN", oper_status |-> "UNKNOWN"]

Port(port_no, type, peers) ==
    [port_no |-> port_no, type |-> type, device_id |-> "",
     admin_state |-> "ENABLED", oper_status |-> "ACTIVE", peers |-> peers]

PeerPort(device_id, port_no) == [device_id |-> device_id, port_no |-> port_no]

LogicalDevice(id, datapath_id) == [id |-> id, datapath_id |-> datapath_id]

LogicalPort(id, port_no, device_id, device_port_no) ==
    [id |-> id, port_no |-> port_no, device_id |-> device_id,
     device_port_no |-> device_port_no]

\* The devices the core may hand to adopt_device: two with full linkage,
\* one per missing linkage field, one whose parent has no logical device.
OnuA == Device("onuA", "olt1", 1, ProxyAddress("olt1", 1))
OnuB == Device("onuB", "olt1", 1, ProxyAddress("olt1", 2))
OnuNoParent == Device("onuC", "", 0, ProxyAddress("olt1", 3))
OnuNoProxyDevice == Device("onuD", "olt1", 1, ProxyAddress("", 4))
OnuNoChannel == Device("onuE", "olt1", 1, ProxyAddress("olt1", 0))
OnuNoLogical == Device("onuF", "olt2", 1, ProxyAddress("olt2", 5))
Olt1 == Device("olt1", "ld1", 0, ProxyAddress("", 0))
Olt2 == Device("olt2", "", 0, ProxyAddress("", 0))

AdoptMenu == {OnuA, OnuB, OnuNoParent, OnuNoProxyDevice, OnuNoChannel, OnuNoLogical}
AllDevices == AdoptMenu \cup {Olt1, Olt2}
\* addresses the proxy transport delivers frames for
AddressMenu == {OnuA.proxy_address, OnuB.proxy_address}
Topics == {d.proxy_address : d \in AdoptMenu}

(***************************************************************************)
(* AdapterAgent operations on the data model.  rp is the tree behind       *)
(* root_proxy: /devices, /devices/{id}/ports, /logical_devices/{id}/ports. *)
(* Each returns [error, rp]; error "" means the call returned.             *)
(***************************************************************************)
Ok(rp) == [error |-> "", rp |-> rp]
Err(e, rp) == [error |-> e, rp |-> rp]

HasDevice(rp, device_id) == device_id \in DOMAIN rp.devices
HasPort(rp, device_id, port_no) ==
    /\ device_id \in DOMAIN rp.ports
    /\ port_no \in DOMAIN rp.ports[device_id]

\* _make_up_to_date on /devices/{id}/ports: update the node, or add it
PutPort(rp, device_id, port) ==
    [rp EXCEPT !.ports[device_id] = (port.port_no :> port) @@ @]

update_device(rp, device) ==
    IF HasDevice(rp, device.id)
    THEN Ok([rp EXCEPT !.devices[device.id] = device])
    ELSE Err("KeyError", rp)

RECURSIVE AddPeerReferenceLoop(_, _, _, _)
AddPeerReferenceLoop(rp, me_as_peer, peers, i) ==
    IF i > Len(peers)
    THEN Ok(rp)
    ELSE LET peer == peers[i] IN
         IF ~HasPort(rp, peer.device_id, peer.port_no)
         THEN Err("KeyError", rp)
         ELSE LET peer_port == rp.ports[peer.device_id][peer.port_no]
                  new_peers ==
                      IF \E j \in 1..Len(peer_port.peers) :
                             peer_port.peers[j] = me_as_peer
                      THEN peer_port.peers
                      ELSE Append(peer_port.peers, me_as_peer)
              IN AddPeerReferenceLoop(
                     PutPort(rp, peer.device_id,
                             [peer_port EXCEPT !.peers = new_peers]),
                     me_as_peer, peers, i + 1)

_add_peer_reference(rp, device_id, port) ==
    AddPeerReferenceLoop(rp, PeerPort(device_id, port.port_no), port.peers, 1)

add_port(rp, device_id, port) ==
    LET r == _add_peer_reference(rp, device_id, port) IN
    IF r.error # ""
    THEN r
    ELSE IF device_id \notin DOMAIN r.rp.ports
    THEN Err("KeyError", r.rp)
    ELSE Ok(PutPort(r.rp, device_id, [port EXCEPT !.device_id = device_id]))

add_port_reference_to_parent(rp, device_id, port) ==
    _add_peer_reference(rp, device_id, port)

RECURSIVE DelPeerReferenceLoop(_, _, _, _)
DelPeerReferenceLoop(rp, me_as_peer, peers, i) ==
    IF i > Len(peers)
    THEN Ok(rp)
    ELSE LET peer == peers[i] IN
         IF ~HasPort(rp, peer.device_id, peer.port_no)
         THEN Err("KeyError", rp)
         ELSE LET peer_port == rp.ports[peer.device_id][peer.port_no]
                  idx == {j \in 1..Len(peer_port.peers) :
                              peer_port.peers[j] = me_as_peer}
                  first == CHOOSE j \in idx : \A k \in idx : j <= k
                  new_peers ==
                      IF idx # {}
                      THEN SubSeq(peer_port.peers, 1, first - 1)
                           \o SubSeq(peer_port.peers, first + 1,
                                     Len(peer_port.peers))
                      ELSE peer_port.peers
              IN DelPeerReferenceLoop(
                     PutPort(rp, peer.device_id,
                             [peer_port EXCEPT !.peers = new_peers]),
                     me_as_peer, peers, i + 1)

_del_peer_reference(rp, device_id, port) ==
    DelPeerReferenceLoop(rp, PeerPort(device_id, port.port_no), port.peers, 1)

delete_port_reference_from_parent(rp, device_id, port) ==
    _del_peer_reference(rp, device_id, port)

add_logical_port(rp, logical_device_id, port) ==
    IF logical_device_id \notin DOMAIN rp.logical_ports
    THEN Err("KeyError", rp)
    ELSE Ok([rp EXCEPT !.logical_ports[logical_device_id] =
                           (port.id :> port) @@ @])

\* list.remove: drop the first element equal to x
RemoveFirst(seq, x) ==
    LET idx == {i \in 1..Len(seq) : seq[i] = x}
        first == CHOOSE i \in idx : \A j \in idx : i <= j
    IN IF idx = {} THEN seq
       ELSE SubSeq(seq, 1, first - 1) \o SubSeq(seq, first + 1, Len(seq))

\* `for peer in port.peers: port.peers.remove(peer)`: the iteration goes by
\* position over the list it is shrinking
RECURSIVE RemovePeersLoop(_, _)
RemovePeersLoop(peers, i) ==
    IF i > Len(peers)
    THEN peers
    ELSE RemovePeersLoop(RemoveFirst(peers, peers[i]), i + 1)

delete_all_peer_references(rp, device_id) ==
    IF device_id \notin DOMAIN rp.ports
    THEN Err("KeyError", rp)
    ELSE Ok([rp EXCEPT !.ports[device_id] =
                [port_no \in DOMAIN @ |->
                    [@[port_no] EXCEPT !.peers = RemovePeersLoop(@, 1)]]])

\* _remove_node on /logical_devices/{id}/ports: a missing node is ignored
_remove_node(rp, logical_device_id, key) ==
    IF logical_device_id \notin DOMAIN rp.logical_ports
    THEN rp
    ELSE [rp EXCEPT !.logical_ports[logical_device_id] =
                        [id \in DOMAIN @ \ {key} |-> @[id]]]

RECURSIVE RemoveNodes(_, _, _)
RemoveNodes(rp, logical_device_id, keys) ==
    IF keys = {}
    THEN rp
    ELSE LET key == CHOOSE k \in keys : TRUE
         IN RemoveNodes(_remove_node(rp, logical_device_id, key),
                        logical_device_id, keys \ {key})

\* The path is the literal '/logical_devices/{}/ports': it is never
\* formatted with logical_device_id, so the node read and emptied is the
\* logical device named "{}".
remove_all_logical_ports(rp, logical_device_id) ==
    LET path_id == "{}" IN
    IF path_id \notin DOMAIN rp.logical_ports
    THEN Err("KeyError", rp)
    ELSE Ok(RemoveNodes(rp, path_id, DOMAIN rp.logical_ports[path_id]))

(***************************************************************************)
(* Flow rules, as update_flows_bulk reads them.                            *)
(***************************************************************************)
Field(type, value) == [type |-> type, value |-> value]
Action(type, ethertype, oxm_class, field_type) ==
    [type |-> type, ethertype |-> ethertype, oxm_class |-> oxm_class,
     field_type |-> field_type]
Flow(priority, fields, actions) ==
    [priority |-> priority, fields |-> fields, actions |-> actions]

SupportedFields ==
    {"ETH_TYPE", "IP_PROTO", "IN_PORT", "VLAN_VID", "VLAN_PCP", "UDP_DST",
     "IPV4_DST"}

\* index of the first element from position `from` on that satisfies P, or 0
FirstIndex(seq, from, P(_)) ==
    LET idx == {i \in from..Len(seq) : P(seq[i])} IN
    IF idx = {} THEN 0 ELSE CHOOSE i \in idx : \A j \in idx : i <= j

\* flow_decomposer.get_in_port: the port of the first IN_PORT match field,
\* None (here -1) when the flow has none
get_in_port(flow) ==
    LET i == FirstIndex(flow.fields, 1, LAMBDA f : f.type = "IN_PORT") IN
    IF i = 0 THEN -1 ELSE flow.fields[i].value

\* hex(n)[2:] as a sequence of hex digits, most significant first
RECURSIVE HexDigits(_)
HexDigits(n) == IF n < 16 THEN <<n>> ELSE Append(HexDigits(n \div 16), n % 16)

\* The model checker's integers are 32-bit signed, so a uint32 field is
\* held as its two 16-bit halves: the value is hi * 65536 + lo.
Uint32(hi, lo) == [hi |-> hi, lo |-> lo]

\* hex(v)[2:] of a uint32: no leading zeros
HexDigits32(v) ==
    IF v.hi = 0
    THEN HexDigits(v.lo)
    ELSE LET l == HexDigits(v.lo) IN
         HexDigits(v.hi) \o [i \in 1..(4 - Len(l)) |-> 0] \o l

\* s[lo:hi] of Python on a sequence, with 0-based bounds
PySlice(s, lo, hi) ==
    IF lo >= Len(s) THEN <<>>
    ELSE SubSeq(s, lo + 1, IF hi < Len(s) THEN hi ELSE Len(s))

\* int(s, 16); the caller checks s is not empty (int('') raises ValueError)
RECURSIVE IntHex(_)
IntHex(s) ==
    IF Len(s) = 0 THEN 0
    ELSE IntHex(SubSeq(s, 1, Len(s) - 1)) * 16 + s[Len(s)]

\* A faulty variant of Ipv4Octets: the octets are taken in the opposite
\* order, the last slice first.
Ipv4Octets_Reversed(ipv4_dst) ==
    LET h == HexDigits32(ipv4_dst)
        sa == PySlice(h, 0, 2)
        sb == PySlice(h, 2, 4)
        sc == PySlice(h, 4, 6)
        sd == PySlice(h, 6, Len(h))
    IN IF sa = <<>> \/ sb = <<>> \/ sc = <<>> \/ sd = <<>>
       THEN [error |-> "ValueError", ip |-> <<>>]
       ELSE [error |-> "",
             ip |-> <<IntHex(sd), IntHex(sc), IntHex(sb), IntHex(sa)>>]

\* lines 364-367: the four octets sliced out of hex(_ipv4_dst)
Ipv4Octets(ipv4_dst) ==
    LET h == HexDigits32(ipv4_dst)
        sa == PySlice(h, 0, 2)
        sb == PySlice(h, 2, 4)
        sc == PySlice(h, 4, 6)
        sd == PySlice(h, 6, Len(h))
    IN IF sa = <<>> \/ sb = <<>> \/ sc = <<>> \/ sd = <<>>
       THEN [error |-> "ValueError", ip |-> <<>>]
       ELSE [error |-> "",
             ip |-> <<IntHex(sa), IntHex(sb), IntHex(sc), IntHex(sd)>>]

\* EOAM.mcastIp2McastMac: the low 23 bits of the address under 01:00:5e
mcastIp2McastMac(ip) == <<1, 0, 94, ip[2] % 128, ip[3] % 256, ip[4] % 256>>

\* A faulty variant of ActionsError: a PUSH_VLAN whose TPID is not 0x8100
\* ends the call instead of being logged.
ActionsError_TpidFatal(flow) ==
    IF \E i \in 1..Len(flow.actions) :
           \/ /\ flow.actions[i].type = "SET_FIELD"
              /\ flow.actions[i].oxm_class # "OFPXMC_OPENFLOW_BASIC"
           \/ /\ flow.actions[i].type = "PUSH_VLAN"
              /\ flow.actions[i].ethertype # 33024
    THEN "AssertionError"
    ELSE ""

\* the action loop of a rule: its only failure is the assert on oxm_class
ActionsError(flow) ==
    IF \E i \in 1..Len(flow.actions) :
           /\ flow.actions[i].type = "SET_FIELD"
           /\ flow.actions[i].oxm_class # "OFPXMC_OPENFLOW_BASIC"
    THEN "AssertionError"
    ELSE ""

ScanEvent(ev, fi, k, error, ipv4_dst) ==
    [ev |-> ev, fi |-> fi, k |-> k, error |-> error, ipv4_dst |-> ipv4_dst]

\* A faulty variant of BulkScan: an IPV4_DST field of an upstream rule is
\* programmed like that of a downstream rule.
RECURSIVE BulkScan_UpstreamSends(_, _, _)
BulkScan_UpstreamSends(flows, fi, k) ==
    IF fi > Len(flows)
    THEN ScanEvent("done", fi, k, "", Uint32(0, 0))
    ELSE LET flow == flows[fi]
             in_port == get_in_port(flow)
             after_fields ==
                 IF ActionsError(flow) # ""
                 THEN ScanEvent("raise", fi, k, ActionsError(flow), Uint32(0, 0))
                 ELSE BulkScan_UpstreamSends(flows, fi + 1, 1)
         IN
         IF in_port = -1
         THEN ScanEvent("raise", fi, k, "AssertionError", Uint32(0, 0))
         ELSE IF in_port \in {1, 2}
         THEN LET j == FirstIndex(flow.fields, k,
                           LAMBDA f : \/ f.type \notin SupportedFields
                                      \/ f.type = "IPV4_DST")
              IN IF j = 0
                 THEN after_fields
                 ELSE IF flow.fields[j].type = "IPV4_DST"
                 THEN ScanEvent("send", fi, j, "", flow.fields[j].value)
                 ELSE ScanEvent("raise", fi, j, "NotImplementedError", Uint32(0, 0))
         ELSE ScanEvent("raise", fi, k, "Exception", Uint32(0, 0))

\* A faulty variant of BulkScan: a rule whose ingress port is neither 1 nor
\* 2, or missing, is handled as a downstream rule.
RECURSIVE BulkScan_OtherPortDownstream(_, _, _)
BulkScan_OtherPortDownstream(flows, fi, k) ==
    IF fi > Len(flows)
    THEN ScanEvent("done", fi, k, "", Uint32(0, 0))
    ELSE LET flow == flows[fi]
             in_port == get_in_port(flow)
             after_fields ==
                 IF ActionsError(flow) # ""
                 THEN ScanEvent("raise", fi, k, ActionsError(flow), Uint32(0, 0))
                 ELSE BulkScan_OtherPortDownstream(flows, fi + 1, 1)
         IN
         IF in_port = 2
         THEN IF FirstIndex(flow.fields, k,
                            LAMBDA f : f.type \notin SupportedFields) # 0
              THEN ScanEvent("raise", fi, k, "NotImplementedError", Uint32(0, 0))
              ELSE after_fields
         ELSE LET j == FirstIndex(flow.fields, k,
                           LAMBDA f : \/ f.type \notin SupportedFields
                                      \/ f.type = "IPV4_DST")
              IN IF j = 0
                 THEN after_fields
                 ELSE IF flow.fields[j].type = "IPV4_DST"
                 THEN ScanEvent("send", fi, j, "", flow.fields[j].value)
                 ELSE ScanEvent("raise", fi, j, "NotImplementedError", Uint32(0, 0))

\* A faulty variant of BulkScan: a rejected rule is skipped and the rules
\* after it are processed.
RECURSIVE BulkScan_SkipsRejected(_, _, _)
BulkScan_SkipsRejected(flows, fi, k) ==
    IF fi > Len(flows)
    THEN ScanEvent("done", fi, k, "", Uint32(0, 0))
    ELSE LET flow == flows[fi]
             in_port == get_in_port(flow)
             next_rule == BulkScan_SkipsRejected(flows, fi + 1, 1)
             after_fields ==
                 IF ActionsError(flow) # ""
                 THEN ScanEvent("raise", fi, k, ActionsError(flow), Uint32(0, 0))
                 ELSE next_rule
         IN
         IF in_port = -1
         THEN next_rule
         ELSE IF in_port = 2
         THEN IF FirstIndex(flow.fields, k,
                            LAMBDA f : f.type \notin SupportedFields) # 0
              THEN next_rule
              ELSE after_fields
         ELSE IF in_port = 1
         THEN LET j == FirstIndex(flow.fields, k,
                           LAMBDA f : \/ f.type \notin SupportedFields
                                      \/ f.type = "IPV4_DST")
              IN IF j = 0
                 THEN after_fields
                 ELSE IF flow.fields[j].type = "IPV4_DST"
                 THEN ScanEvent("send", fi, j, "", flow.fields[j].value)
                 ELSE next_rule
         ELSE next_rule

\* update_flows_bulk from field k of rule fi up to its next effect: the
\* send for an IPV4_DST field of a downstream rule, an exception, or the
\* end of the rules.  Everything else in the loops only logs.
RECURSIVE BulkScan(_, _, _)
BulkScan(flows, fi, k) ==
    IF fi > Len(flows)
    THEN ScanEvent("done", fi, k, "", Uint32(0, 0))
    ELSE LET flow == flows[fi]
             in_port == get_in_port(flow)
             after_fields ==
                 IF ActionsError(flow) # ""
                 THEN ScanEvent("raise", fi, k, ActionsError(flow), Uint32(0, 0))
                 ELSE BulkScan(flows, fi + 1, 1)
         IN
         IF in_port = -1
         THEN ScanEvent("raise", fi, k, "AssertionError", Uint32(0, 0))
         ELSE IF in_port = 2
         THEN IF FirstIndex(flow.fields, k,
                            LAMBDA f : f.type \notin SupportedFields) # 0
              THEN ScanEvent("raise", fi, k, "NotImplementedError", Uint32(0, 0))
              ELSE after_fields
         ELSE IF in_port = 1
         THEN LET j == FirstIndex(flow.fields, k,
                           LAMBDA f : \/ f.type \notin SupportedFields
                                      \/ f.type = "IPV4_DST")
              IN IF j = 0
                 THEN after_fields
                 ELSE IF flow.fields[j].type = "IPV4_DST"
                 THEN ScanEvent("send", fi, j, "", flow.fields[j].value)
                 ELSE ScanEvent("raise", fi, j, "NotImplementedError", Uint32(0, 0))
         ELSE ScanEvent("raise", fi, k, "Exception", Uint32(0, 0))

(***************************************************************************)
(* State.                                                                  *)
(***************************************************************************)
VARIABLES
    tasks,          \* the invocations of _onu_device_activation and
                    \* update_flows_bulk, in the order they were made
    pending,        \* incoming_messages.pending (DeferredQueue)
    waiting,        \* incoming_messages.waiting: the suspended get() calls
    root_proxy,     \* the data model the agent reads and writes
    event_bus,      \* subscriptions per 'rx:' topic
    looping_calls,  \* LoopingCalls started by start_kpi_collection
    delivered,      \* frames handed to AdapterAgent.receive_proxied_message
    parsed,         \* the last call of a parsing function made on its own:
                    \* the function, its arguments and what it returned
    called,         \* the last core-facing AdapterAgent operation called on
                    \* its own: its arguments, the data model before it,
                    \* the exception it ended with
    agent           \* the AdapterAgent's own fields: _rx_event_subscriptions
                    \* (the topics that have an entry),
                    \* packet_out_subscription (0 for None) and, of the event
                    \* bus, the packet-out subscriptions it holds

vars == <<tasks, pending, waiting, root_proxy, event_bus, looping_calls,
          delivered, parsed, called, agent>>

\* The state a handler reads and writes, threaded through its calls.
Here ==
    [tasks |-> tasks, pending |-> pending, waiting |-> waiting,
     root_proxy |-> root_proxy, event_bus |-> event_bus,
     looping_calls |-> looping_calls, agent |-> agent]

Commit(S) ==
    /\ tasks' = S.tasks
    /\ pending' = S.pending
    /\ waiting' = S.waiting
    /\ root_proxy' = S.root_proxy
    /\ event_bus' = S.event_bus
    /\ looping_calls' = S.looping_calls
    /\ agent' = S.agent

\* A queue entry: the frame, and the address it was delivered for.  The
\* queue itself holds the frame only; the address is kept to state claims.
Entry(proxy_address, msg) == [proxy_address |-> proxy_address, msg |-> msg]
Dequeued(entry, at) ==
    [proxy_address |-> entry.proxy_address, msg |-> entry.msg, at |-> at]

NoResponse == [error |-> "", rc |-> FALSE, branch |-> 0, leaf |-> 0, status |-> 0]

\* pc: "scheduled" (callLater pending), "wait_get" (line 481), "wait_set"
\* (lines 502, 386), "done", "raised" (with the exception in error and the
\* function that raised it in raised_in).
\* calls, dequeued, rx, handled, acked, resp record what the task did:
\* calls on the agent; frames taken off the queue; frames taken and frames
\* passed to _voltha_check_resp in the current (or last) wait for a Set
\* Response; whether that wait saw its Set Response and what
\* _voltha_check_set_resp returned for it.
NewTask(kind, device, flows) ==
    [kind |-> kind, device |-> device, flows |-> flows, fi |-> 1, k |-> 1,
     pc |-> "scheduled", error |-> "", raised_in |-> "", calls |-> <<>>, dequeued |-> <<>>,
     rx |-> <<>>, handled |-> <<>>, acked |-> FALSE, resp |-> NoResponse]

Call(op, arg) == [op |-> op, arg |-> arg]
Log(S, t, call) == [S EXCEPT !.tasks[t].calls = Append(@, call)]
\* an exception leaves the task: nothing catches it (the Deferred of the
\* inlineCallbacks function fails and has no errback)
Raise(S, t, error, raised_in) ==
    [S EXCEPT !.tasks[t].pc = "raised", !.tasks[t].error = error,
              !.tasks[t].raised_in = raised_in]
\* get() on an empty queue: the Deferred joins incoming_messages.waiting
Suspend(S, t, pc) ==
    [S EXCEPT !.tasks[t].pc = pc, !.waiting = Append(@, t)]

GetRequest == [msg |-> "GetRequest", attr |-> "DeviceId", mac |-> <<>>]
SetRequest(mac) ==
    [msg |-> "SetRequest", attr |-> "AddStaticMacAddress", mac |-> mac]

\* _find_first_available_id: i = 1; while True: return i when neither i is
\* a datapath id nor str(i) an id; i += 1
RECURSIVE FindFirstAvailable(_, _, _)
FindFirstAvailable(existing_ids, existing_datapath_ids, i) ==
    IF i \notin existing_datapath_ids /\ ToString(i) \notin existing_ids
    THEN i
    ELSE FindFirstAvailable(existing_ids, existing_datapath_ids, i + 1)

_find_first_available_id_IgnoresIds(rp) ==
    FindFirstAvailable(
        {},
        {rp.logical_devices[k].datapath_id : k \in DOMAIN rp.logical_devices},
        1)

_find_first_available_id(rp) ==
    FindFirstAvailable(
        {rp.logical_devices[k].id : k \in DOMAIN rp.logical_devices},
        {rp.logical_devices[k].datapath_id : k \in DOMAIN rp.logical_devices},
        1)

\* _make_up_to_date on /logical_devices: update the node, or add it with no
\* port
PutLogicalDevice(rp, logical_device) ==
    [rp EXCEPT
       !.logical_devices = (logical_device.id :> logical_device) @@ @,
       !.logical_ports = IF logical_device.id \in DOMAIN @
                         THEN @
                         ELSE (logical_device.id :> <<>>) @@ @]

\* create_logical_device: the id and datapath id when the id is empty, the
\* node, and one more packet-out subscription, kept in the one attribute
\* packet_out_subscription; returns the logical device
create_logical_device(S, logical_device) ==
    LET id == _find_first_available_id(S.root_proxy)
        ld == IF logical_device.id = ""
              THEN LogicalDevice(ToString(id), id)
              ELSE logical_device
        n == S.agent.subscribed + 1
    IN [S |-> [S EXCEPT
                 !.root_proxy = PutLogicalDevice(@, ld),
                 !.agent.subscribed = n,
                 !.agent.subscriptions = @ \cup {[n |-> n, topic |-> ld.id]},
                 !.agent.packet_out_subscription = n],
        error |-> "", out |-> ld]

\* _remove_node on /logical_devices: the logical device goes with its
\* ports; a missing node is ignored
RemoveLogicalDevice(rp, id) ==
    [rp EXCEPT
       !.logical_devices = [k \in DOMAIN @ \ {id} |-> @[k]],
       !.logical_ports = [k \in DOMAIN @ \ {id} |-> @[k]]]

\* EventBus.unsubscribe of the subscription with number n: the subscription
\* leaves the bus; for None (0) and for a subscription that has left the
\* bus already the call may raise or do nothing
Unsubscribe(agent_, n) ==
    IF \E sub \in agent_.subscriptions : sub.n = n
    THEN {[agent |-> [agent_ EXCEPT !.subscriptions =
                                      {sub \in @ : sub.n # n}],
           error |-> ""]}
    ELSE {[agent |-> agent_, error |-> ""],
          [agent |-> agent_, error |-> "Error"]}

\* delete_logical_device: unsubscribes packet_out_subscription, whichever
\* logical device it was created for, then removes the node
delete_logical_device(S, logical_device) ==
    {IF u.error # ""
     THEN [S |-> S, error |-> u.error, out |-> 0]
     ELSE [S |-> [S EXCEPT !.agent = u.agent,
                           !.root_proxy =
                               RemoveLogicalDevice(@, logical_device.id)],
           error |-> "", out |-> 0] :
     u \in Unsubscribe(S.agent, S.agent.packet_out_subscription)}

\* AdapterAgent.send_proxied_message publishes on the 'tx:' topic
send_proxied_message(S, t, proxy_address, msg) ==
    Log(S, t, Call("send_proxied_message",
                   [proxy_address |-> proxy_address, msg |-> msg]))

\* AdapterAgent.register_for_proxied_messages: every call subscribes once
\* more to the 'rx:' topic of the address, and the one dictionary entry of
\* the topic then holds the newest subscription
Subscribed(S, proxy_address) ==
    [S EXCEPT !.event_bus[proxy_address] = @ + 1,
              !.agent._rx_event_subscriptions = @ \cup {proxy_address}]

register_for_proxied_messages(S, t, proxy_address) ==
    Subscribed(Log(S, t, Call("register_for_proxied_messages",
                              [proxy_address |-> proxy_address])),
               proxy_address)

\* AdapterAgent.unregister_for_proxied_messages: unsubscribes the
\* subscription of the dictionary entry and deletes the entry; KeyError
\* without an entry
unregister_for_proxied_messages(S, proxy_address) ==
    IF proxy_address \notin S.agent._rx_event_subscriptions
    THEN [S |-> S, error |-> "KeyError"]
    ELSE [S |-> [S EXCEPT !.event_bus[proxy_address] = @ - 1,
                          !.agent._rx_event_subscriptions =
                              @ \ {proxy_address}],
          error |-> ""]

start_kpi_collection(S, t, device_id) ==
    [Log(S, t, Call("start_kpi_collection", [device_id |-> device_id]))
     EXCEPT !.looping_calls[device_id] = @ + 1]

\* a registry call of task t: logged, and applied when it returns
Registry(S, t, call, r) == [Log(S, t, call) EXCEPT !.root_proxy = r.rp]

\* A faulty variant of ActivationFinish: the KPI collection is started
\* before the status update.
ActivationFinish_KpiFirst(S, t) ==
    LET id == S.tasks[t].device.id
        S0 == start_kpi_collection(S, t, id)
        device == [S0.root_proxy.devices[id] EXCEPT !.oper_status = "ACTIVE"]
        r == update_device(S0.root_proxy, device)
    IN [Registry(S0, t, Call("update_device", [device |-> device]), r)
        EXCEPT !.tasks[t].pc = "done"]

(***************************************************************************)
(* _onu_device_activation, lines 219-224: after _message_exchange returns *)
(***************************************************************************)
ActivationFinish(S, t) ==
    LET id == S.tasks[t].device.id IN
    IF ~HasDevice(S.root_proxy, id)
    THEN Raise(S, t, "KeyError", "_onu_device_activation")
    ELSE LET device == [S.root_proxy.devices[id] EXCEPT !.oper_status = "ACTIVE"]
             r == update_device(S.root_proxy, device)
             S1 == Registry(S, t, Call("update_device", [device |-> device]), r)
         IN IF r.error # ""
            THEN Raise(S1, t, r.error, "_onu_device_activation")
            ELSE [start_kpi_collection(S1, t, id) EXCEPT !.tasks[t].pc = "done"]

(***************************************************************************)
(* The wait for a Set Response (lines 496-525 and 380-409) and what        *)
(* follows it in the caller.                                               *)
(***************************************************************************)
RECURSIVE SetResponseLoop(_, _)

\* update_flows_bulk from the task's position on
BulkContinue(S, t) ==
    LET tk == S.tasks[t]
        e == BulkScan(tk.flows, tk.fi, tk.k)
    IN IF e.ev = "done"
       THEN [S EXCEPT !.tasks[t].pc = "done"]
       ELSE IF e.ev = "raise"
       THEN Raise(S, t, e.error, "update_flows_bulk")
       ELSE LET o == Ipv4Octets(e.ipv4_dst) IN
            IF o.error # ""
            THEN Raise(S, t, o.error, "update_flows_bulk")
            ELSE LET S1 == send_proxied_message(
                               S, t, tk.device.proxy_address,
                               SetRequest(mcastIp2McastMac(o.ip)))
                 IN SetResponseLoop(
                        [S1 EXCEPT !.tasks[t].fi = e.fi,
                                   !.tasks[t].k = e.k + 1,
                                   !.tasks[t].rx = <<>>,
                                   !.tasks[t].handled = <<>>,
                                   !.tasks[t].acked = FALSE], t)

\* A faulty variant of AfterAck: a Set Response whose attribute walk failed
\* ends the caller instead of being logged.
AfterAck_HardFailStops(S, t, frame) ==
    LET r == _voltha_check_set_resp(frame) IN
    IF r.error # ""
    THEN Raise(S, t, r.error, "_voltha_check_set_resp")
    ELSE IF ~r.rc
    THEN Raise(S, t, "Exception", "_voltha_check_set_resp")
    ELSE LET S1 == [S EXCEPT !.tasks[t].resp = r] IN
         IF S.tasks[t].kind = "activation"
         THEN ActivationFinish(S1, t)
         ELSE BulkContinue(S1, t)

\* "if ack:" - verify the Set Response, then return to the caller
AfterAck(S, t, frame) ==
    LET r == _voltha_check_set_resp(frame) IN
    IF r.error # ""
    THEN Raise(S, t, r.error, "_voltha_check_set_resp")
    ELSE LET S1 == [S EXCEPT !.tasks[t].resp = r] IN
         IF S.tasks[t].kind = "activation"
         THEN ActivationFinish(S1, t)
         ELSE BulkContinue(S1, t)

\* the body of "while not ack" for the frame that get() returned
OnFrame(S, t, entry) ==
    LET frame == entry.msg
        S1 == [S EXCEPT !.tasks[t].rx = Append(@, entry),
                        !.tasks[t].dequeued = Append(@, Dequeued(entry, "set"))]
        c == _voltha_get_oam_msg_type(frame)
    IN IF c.error # ""
       THEN Raise(S1, t, c.error, "_voltha_get_oam_msg_type")
       ELSE IF c.respType = RxedOamMsgTypeEnum["DPoE Set Response"]
       THEN AfterAck([S1 EXCEPT !.tasks[t].acked = TRUE], t, frame)
       ELSE LET S2 == [S1 EXCEPT !.tasks[t].handled = Append(@, entry)]
                e == _voltha_check_resp(frame)
            IN IF e # ""
               THEN Raise(S2, t, e, "_voltha_check_resp")
               ELSE SetResponseLoop(S2, t)

\* "frame = yield self.incoming_messages.get()": a pending frame is taken
\* at once, otherwise the task suspends
SetResponseLoop(S, t) ==
    IF S.pending = <<>>
    THEN Suspend(S, t, "wait_set")
    ELSE OnFrame([S EXCEPT !.pending = Tail(@)], t, Head(S.pending))

\* A faulty variant of MessageExchangeStart: the queue is not reset before
\* the Get-Request is sent.
MessageExchangeStart_NoReset(S, t) ==
    LET address == S.tasks[t].device.proxy_address
        S1 == register_for_proxied_messages(S, t, address)
        S3 == send_proxied_message(S1, t, address, GetRequest)
    IN Suspend(S3, t, "wait_get")

\* A faulty variant of MessageExchangeStart: the Get-Request is sent before
\* the adapter has registered for the device's proxied messages.
MessageExchangeStart_SendFirst(S, t) ==
    LET address == S.tasks[t].device.proxy_address
        S1 == send_proxied_message(S, t, address, GetRequest)
        S2 == register_for_proxied_messages(S1, t, address)
        drained == [i \in 1..Len(S2.pending) |-> Dequeued(S2.pending[i], "reset")]
        S3 == [S2 EXCEPT !.pending = <<>>,
                         !.tasks[t].dequeued = @ \o drained]
    IN Suspend(S3, t, "wait_get")

(***************************************************************************)
(* _message_exchange, lines 459-481: register, reset the queue, send the   *)
(* Get-Request and wait for a frame.                                       *)
(***************************************************************************)
MessageExchangeStart(S, t) ==
    LET address == S.tasks[t].device.proxy_address
        S1 == register_for_proxied_messages(S, t, address)
        drained == [i \in 1..Len(S1.pending) |-> Dequeued(S1.pending[i], "reset")]
        S2 == [S1 EXCEPT !.pending = <<>>,
                         !.tasks[t].dequeued = @ \o drained]
        S3 == send_proxied_message(S2, t, address, GetRequest)
    IN Suspend(S3, t, "wait_get")

\* lines 481-502: the frame that ends the first wait is not looked at
MessageExchangeGotFrame(S, t, entry) ==
    LET address == S.tasks[t].device.proxy_address
        S1 == [S EXCEPT !.tasks[t].dequeued = Append(@, Dequeued(entry, "get"))]
        S2 == send_proxied_message(S1, t, address,
                                   SetRequest(<<1, 0, 94, 0, 0, 1>>))
    IN SetResponseLoop(
           [S2 EXCEPT !.tasks[t].rx = <<>>, !.tasks[t].handled = <<>>,
                      !.tasks[t].acked = FALSE], t)

(***************************************************************************)
(* _onu_device_activation, lines 141-217                                   *)
(***************************************************************************)
IdentifiedDevice(device) ==
    [device EXCEPT !.vendor = "Tibit Communications, Inc.",
                   !.model = "10G GPON ONU",
                   !.hardware_version = "fa161020",
                   !.firmware_version = "16.12.02",
                   !.software_version = "1.0",
                   !.serial_number = "uuid4",
                   !.connect_status = "REACHABLE"]

\* A faulty variant of LinkageError: the channel id is not asserted.
LinkageError_NoChannelAssert(device) ==
    IF device.parent_id = ""
    THEN "AssertionError: device.parent_id"
    ELSE IF device.proxy_address.device_id = ""
    THEN "AssertionError: device.proxy_address.device_id"
    ELSE ""

\* lines 144-146: the asserts on the parent reference and the proxy info
LinkageError(device) ==
    IF device.parent_id = ""
    THEN "AssertionError: device.parent_id"
    ELSE IF device.proxy_address.device_id = ""
    THEN "AssertionError: device.proxy_address.device_id"
    ELSE IF device.proxy_address.channel_id = 0
    THEN "AssertionError: device.proxy_address.channel_id"
    ELSE ""

\* A faulty variant of PonPort: the port names no peer.
PonPort_NoPeer(device) == Port(1, "PON_ONU", <<>>)

UniPort == Port(2, "ETHERNET_UNI", <<>>)

PonPort(device) ==
    Port(1, "PON_ONU", <<PeerPort(device.parent_id, device.parent_port_no)>>)

\* lines 195-213: the logical port is named and numbered by the channel id
UniLogicalPort(device) ==
    LogicalPort(ToString(device.proxy_address.channel_id),
                device.proxy_address.channel_id, device.id, UniPort.port_no)

ActivationStart(S, t) ==
    LET device == S.tasks[t].device
        here == "_onu_device_activation"
    IN
    IF LinkageError(device) # ""
    THEN Raise(S, t, LinkageError(device), here)
    ELSE
    LET dev == IdentifiedDevice(device)
        r1 == update_device(S.root_proxy, dev)
        S1 == Registry(S, t, Call("update_device", [device |-> dev]), r1)
        r2 == add_port(S1.root_proxy, device.id, UniPort)
        S2 == Registry(S1, t, Call("add_port",
                  [device_id |-> device.id, port |-> UniPort]), r2)
        r3 == add_port(S2.root_proxy, device.id, PonPort(device))
        S3 == Registry(S2, t, Call("add_port",
                  [device_id |-> device.id, port |-> PonPort(device)]), r3)
    IN IF r1.error # "" THEN Raise(S1, t, r1.error, here)
       ELSE IF r2.error # "" THEN Raise(S2, t, r2.error, here)
       ELSE IF r3.error # "" THEN Raise(S3, t, r3.error, here)
       ELSE IF ~HasDevice(S3.root_proxy, device.parent_id)
       THEN Raise(S3, t, "KeyError", here)
       ELSE
       LET logical_device_id == S3.root_proxy.devices[device.parent_id].parent_id
           port == UniLogicalPort(device)
           r4 == add_logical_port(S3.root_proxy, logical_device_id, port)
           S4 == Registry(S3, t, Call("add_logical_port",
                     [logical_device_id |-> logical_device_id, port |-> port]),
                     r4)
       IN IF logical_device_id = ""
          THEN Raise(S3, t, "AssertionError: logical_device_id", here)
          ELSE IF r4.error # "" THEN Raise(S4, t, r4.error, here)
          ELSE MessageExchangeStart(S4, t)

(***************************************************************************)
(* DeferredQueue.put, with the callback chain of the get() it fires.       *)
(***************************************************************************)
Resume(S, t, entry) ==
    IF S.tasks[t].pc = "wait_get"
    THEN MessageExchangeGotFrame(S, t, entry)
    ELSE OnFrame(S, t, entry)

Put(S, entry) ==
    IF S.waiting # <<>>
    THEN Resume([S EXCEPT !.waiting = Tail(@)], Head(S.waiting), entry)
    ELSE [S EXCEPT !.pending = Append(@, entry)]

\* EventBus.publish calls every subscription of the topic in turn; each is
\* the lambda of register_for_proxied_messages, which ends in
\* TibitOnuAdapter.receive_proxied_message and its put()
RECURSIVE Publish(_, _, _)
Publish(S, entry, n) ==
    IF n = 0 THEN S ELSE Publish(Put(S, entry), entry, n - 1)

(***************************************************************************)
(* Inputs.                                                                 *)
(***************************************************************************)
TibitOui == <<42, 234, 21>>
CablelabsOui == <<0, 16, 0>>
ItuOui == <<0, 25, 167>>

\* Set Response, no attribute: only the end marker
SetResponseOk == Frame(TRUE, 254, TibitOui \o <<4, 0, 0, 0>>)
\* Set Response, one attribute answered 0x80 (no error), then the end marker
SetResponseNoError ==
    Frame(TRUE, 254, TibitOui \o <<4, 215, 1, 1, 128, 0, 0, 0>>)
\* Set Response, one attribute answered 0x86 (bad parameters)
SetResponseBad == Frame(TRUE, 254, CablelabsOui \o <<4, 215, 1, 1, 134>>)
GetResponse == Frame(TRUE, 254, TibitOui \o <<2, 215, 0, 2, 1, 7, 0, 0, 0>>)
OmciMessage == Frame(TRUE, 254, ItuOui \o <<1, 2>>)
EventNotificationFrame == Frame(TRUE, 1, <<0, 1, 254, 10, 42, 234, 21, 17>>)
UnknownOuiFrame == Frame(TRUE, 254, <<1, 2, 3, 4>>)
InfoFrame == Frame(TRUE, 0, <<>>)
NoBodyFrame == Frame(FALSE, 0, <<>>)
ShortFrame == Frame(TRUE, 254, <<42>>)

FrameMenu ==
    {SetResponseOk, SetResponseNoError, SetResponseBad, GetResponse,
     OmciMessage, EventNotificationFrame, UnknownOuiFrame, NoBodyFrame,
     ShortFrame}

DownstreamMulticast ==
    Flow(1000, <<Field("IN_PORT", 1), Field("IPV4_DST", Uint32(57344, 257))>>,
         <<Action("OUTPUT", 0, "", "")>>)
DownstreamTwo ==
    Flow(1000, <<Field("IN_PORT", 1), Field("IPV4_DST", Uint32(61185, 515)),
                 Field("ETH_TYPE", 2048), Field("IPV4_DST", Uint32(57344, 257))>>,
         <<Action("OUTPUT", 0, "", "")>>)
Upstream ==
    Flow(500, <<Field("IN_PORT", 2), Field("ETH_TYPE", 2048)>>,
         <<Action("PUSH_VLAN", 33024, "", ""), Action("OUTPUT", 0, "", "")>>)

FlowsMenu == {<<DownstreamMulticast>>, <<Upstream, DownstreamTwo>>}

(***************************************************************************)
(* Initial state: the core holds the OLTs (one of them with its logical    *)
(* device, both with their PON port) and the ONUs it detected.             *)
(***************************************************************************)
Init ==
    /\ tasks = <<>>
    /\ pending = <<>>
    /\ waiting = <<>>
    /\ root_proxy =
         [devices |-> [id \in {d.id : d \in AllDevices} |->
                          CHOOSE d \in AllDevices : d.id = id],
          ports |-> [id \in {d.id : d \in AllDevices} |->
                          IF id \in {"olt1", "olt2"}
                          THEN (1 :> [Port(1, "PON_OLT", <<>>)
                                          EXCEPT !.device_id = id])
                          ELSE <<>>],
          logical_devices |-> [id \in {"ld1"} |-> LogicalDevice("ld1", 1)],
          logical_ports |-> [id \in {"ld1"} |-> <<>>]]
    /\ event_bus = [a \in Topics |-> 0]
    /\ looping_calls = [id \in {d.id : d \in AllDevices} |-> 0]
    /\ delivered = 0
    /\ parsed = [fn |-> ""]
    /\ called = [op |-> "", n |-> 0, ops |-> {}, added |-> {}]
    /\ agent = [_rx_event_subscriptions |-> {}, packet_out_subscription |-> 0,
                subscriptions |-> {}, subscribed |-> 0]

(***************************************************************************)
(* Actions.                                                                *)
(***************************************************************************)
\* adopt_device: reactor.callLater(0.1, self._onu_device_activation, device)
adopt_device(device) ==
    /\ Len(tasks) < MaxTasks
    /\ tasks' = Append(tasks, NewTask("activation", device, <<>>))
    /\ UNCHANGED <<pending, waiting, root_proxy, event_bus, looping_calls,
                   delivered, parsed, called, agent>>

\* the delayed call fires and runs to the first wait
_onu_device_activation(t) ==
    /\ tasks[t].kind = "activation"
    /\ tasks[t].pc = "scheduled"
    /\ Commit(ActivationStart(Here, t))
    /\ UNCHANGED <<delivered, parsed, called>>

\* update_flows_bulk runs at once, to its first wait or to its end
update_flows_bulk(device, flows) ==
    /\ Len(tasks) < MaxTasks
    /\ LET t == Len(tasks) + 1
           S == [Here EXCEPT !.tasks = Append(@, NewTask("flows", device, flows))]
       IN Commit(BulkContinue(S, t))
    /\ UNCHANGED <<delivered, parsed, called>>

\* AdapterAgent.receive_proxied_message: publish on the 'rx:' topic
receive_proxied_message(proxy_address, msg) ==
    /\ delivered < MaxFrames
    /\ delivered' = delivered + 1
    /\ Commit(Publish(Here, Entry(proxy_address, msg), event_bus[proxy_address]))
    /\ UNCHANGED <<parsed, called>>

Next ==
    \/ \E device \in AdoptMenu : adopt_device(device)
    \/ \E t \in 1..Len(tasks) : _onu_device_activation(t)
    \/ \E device \in {OnuA, OnuB}, flows \in FlowsMenu :
           update_flows_bulk(device, flows)
    \/ \E proxy_address \in AddressMenu, msg \in FrameMenu :
           receive_proxied_message(proxy_address, msg)

Spec == Init /\ [][Next]_vars

(***************************************************************************)
(* The parsing functions on their own: classification and the two          *)
(* attribute walks are functions of a byte buffer.  Here each is called    *)
(* with the buffers of a menu, and the call is recorded in parsed.         *)
(***************************************************************************)
RECURSIVE Concat(_)
Concat(seqs) == IF seqs = <<>> THEN <<>> ELSE Head(seqs) \o Concat(Tail(seqs))

SeqsUpTo(S, n) == UNION {[1..k -> S] : k \in 0..n}

\* an attribute record as it lies in the buffer: branch, leaf (2 bytes),
\* length byte, value bytes
Attr(branch, leaf, length, value) ==
    <<branch, leaf \div 256, leaf % 256, length>> \o value

ValueMenu ==
    { <<1, <<7>>>>, <<2, <<1, 2>>>>, <<4, <<215, 0, 1, 134>>>>,
      <<8, <<0, 0, 0, 0, 0, 1, 2, 3>>>>, <<3, <<9, 8, 7>>>>,
      <<0, [i \in 1..128 |-> 5]>>, <<128, <<>>>>, <<134, <<>>>> }

AttrMenu ==
    { Attr(215, leaf, v[1], v[2]) : leaf \in {1, 2}, v \in ValueMenu }
    \cup { Attr(214, 1, 1, <<6>>), Attr(214, 1, 128, <<>>), Attr(214, 1, 134, <<>>) }
    \cup { <<0, 0, 0>>, <<0, 5, 6>> }

\* what may follow the records: nothing, or a record cut short
TruncatedMenu == { <<>>, <<0>>, <<215>>, <<215, 0, 1>>, <<215, 0, 1, 2, 9>> }

BufferMenu ==
    { Concat(rs) \o cut : rs \in SeqsUpTo(AttrMenu, MaxRecords),
                          cut \in TruncatedMenu }

QueryMenu == { <<0, 0>>, <<215, 1>>, <<215, 2>>, <<214, 1>> }

OuiMenu ==
    { TibitOui, CablelabsOui, ItuOui, <<1, 2, 3>>, <<0, 25, 166>>,
      <<>>, <<42>>, <<42, 234>>, <<0, 16>> }

LoadMenu ==
    { oui \o tail : oui \in {o \in OuiMenu : Len(o) = 3},
                    tail \in SeqsUpTo({0, 2, 4, 5, 9}, MaxTail) }
    \cup { o \in OuiMenu : Len(o) < 3 }

ClassifyMenu ==
    { Frame(has_body, opcode, load) :
        has_body \in BOOLEAN, opcode \in {0, 1, 3, 254}, load \in LoadMenu }

\* one call per behaviour, made on the freshly constructed adapter
ParsingIdle ==
    UNCHANGED <<tasks, pending, waiting, root_proxy, event_bus, looping_calls,
                delivered, called, agent>>

Call_voltha_get_oam_msg_type ==
    /\ parsed.fn = ""
    /\ \E frame \in ClassifyMenu :
           parsed' = [fn |-> "_voltha_get_oam_msg_type", frame |-> frame,
                      out |-> _voltha_get_oam_msg_type(frame)]
    /\ ParsingIdle

\* startOfTlvs is 4 in _voltha_check_set_resp (OUI and DPoE opcode precede
\* the records), and 0 for a buffer of records only
Call_voltha_check_set_resp_attrs ==
    /\ parsed.fn = ""
    /\ \E records \in BufferMenu, startOfTlvs \in {0, 4} :
           LET loadstr == IF startOfTlvs = 4 THEN TibitOui \o <<4>> \o records
                          ELSE records
           IN parsed' = [fn |-> "_voltha_check_set_resp_attrs",
                         loadstr |-> loadstr, startOfTlvs |-> startOfTlvs,
                         out |-> _voltha_check_set_resp_attrs(loadstr, startOfTlvs)]
    /\ ParsingIdle

Call_voltha_handle_get_value ==
    /\ parsed.fn = ""
    /\ \E loadstr \in BufferMenu, q \in QueryMenu :
           parsed' = [fn |-> "_voltha_handle_get_value", loadstr |-> loadstr,
                      startOfTlvs |-> 0, queryBranch |-> q[1], queryLeaf |-> q[2],
                      out |-> _voltha_handle_get_value(loadstr, 0, q[1], q[2])]
    /\ ParsingIdle

ParsingNext ==
    \/ Call_voltha_get_oam_msg_type
    \/ Call_voltha_check_set_resp_attrs
    \/ Call_voltha_handle_get_value

ParsingSpec == Init /\ [][ParsingNext]_vars

(***************************************************************************)
(* The core-facing operations on their own: the core and the adapters call *)
(* them on the AdapterAgent at any time.  Each call is recorded in called, *)
(* with the data model as it was before the call.                          *)
(***************************************************************************)
PeersMenu ==
    { <<>>,
      <<PeerPort("olt1", 1)>>,
      <<PeerPort("olt1", 1), PeerPort("olt2", 1)>>,
      <<PeerPort("olt1", 1), PeerPort("olt2", 1), PeerPort("onuB", 1)>> }

PortMenu == { Port(port_no, "ETHERNET_UNI", peers) :
                port_no \in {1, 2}, peers \in PeersMenu }

LogicalPortMenu ==
    { LogicalPort("1", 1, "onuA", 2), LogicalPort("2", 2, "onuB", 2) }

DeviceIdMenu == {"onuA", "onuB", "nodev"}
LogicalDeviceIdMenu == {"ld1", "ld9"}

AgentIdle ==
    UNCHANGED <<tasks, pending, waiting, event_bus, looping_calls, delivered,
                parsed, agent>>

\* the operations that add back-references
AddingOps == {"add_port", "add_port_reference_to_parent"}

\* called also keeps the operations called so far and the ports whose
\* back-references were added by a call that ended without an exception
Called(op, args, r) ==
    /\ root_proxy' = r.rp
    /\ called' = [op |-> op, args |-> args, before |-> root_proxy,
                  error |-> r.error, n |-> called.n + 1,
                  ops |-> called.ops \cup {op},
                  added |-> IF op \in AddingOps /\ r.error = ""
                            THEN called.added \cup {args}
                            ELSE called.added]
    /\ AgentIdle

Call_add_port ==
    /\ called.n < MaxCalls
    /\ \E device_id \in DeviceIdMenu, port \in PortMenu :
           Called("add_port", [device_id |-> device_id, port |-> port],
                  add_port(root_proxy, device_id, port))

Call_delete_all_peer_references ==
    /\ called.n < MaxCalls
    /\ \E device_id \in DeviceIdMenu :
           Called("delete_all_peer_references", [device_id |-> device_id],
                  delete_all_peer_references(root_proxy, device_id))

Call_add_logical_port ==
    /\ called.n < MaxCalls
    /\ \E logical_device_id \in LogicalDeviceIdMenu, port \in LogicalPortMenu :
           Called("add_logical_port",
                  [logical_device_id |-> logical_device_id, port |-> port],
                  add_logical_port(root_proxy, logical_device_id, port))

Call_remove_all_logical_ports ==
    /\ called.n < MaxCalls
    /\ \E logical_device_id \in LogicalDeviceIdMenu :
           Called("remove_all_logical_ports",
                  [logical_device_id |-> logical_device_id],
                  remove_all_logical_ports(root_proxy, logical_device_id))

Call_add_port_reference_to_parent ==
    /\ called.n < MaxCalls
    /\ \E device_id \in DeviceIdMenu, port \in PortMenu :
           Called("add_port_reference_to_parent",
                  [device_id |-> device_id, port |-> port],
                  add_port_reference_to_parent(root_proxy, device_id, port))

Call_delete_port_reference_from_parent ==
    /\ called.n < MaxCalls
    /\ \E device_id \in DeviceIdMenu, port \in PortMenu :
           Called("delete_port_reference_from_parent",
                  [device_id |-> device_id, port |-> port],
                  delete_port_reference_from_parent(root_proxy, device_id,
                                                    port))

AgentNext ==
    \/ Call_add_port
    \/ Call_add_port_reference_to_parent
    \/ Call_delete_port_reference_from_parent
    \/ Call_delete_all_peer_references
    \/ Call_add_logical_port
    \/ Call_remove_all_logical_ports

AgentSpec == Init /\ [][AgentNext]_vars

(***************************************************************************)
(* The services of the agent that involve the event bus and the logical    *)
(* devices, called on their own: registration for proxied messages, the    *)
(* frames the transport hands to the agent, the logical devices and their  *)
(* packet-out subscriptions, and the core-facing operations.               *)
(***************************************************************************)
ServiceCalled(op, args, S, error, out) ==
    /\ Commit(S)
    /\ called' = [op |-> op, args |-> args, before |-> Here, error |-> error,
                  out |-> out, n |-> called.n + 1,
                  ops |-> called.ops \cup {op}]
    /\ UNCHANGED parsed

Call_register_for_proxied_messages ==
    /\ called.n < MaxCalls
    /\ \E proxy_address \in AddressMenu :
           ServiceCalled("register_for_proxied_messages",
                         [proxy_address |-> proxy_address],
                         Subscribed(Here, proxy_address), "", 0)
    /\ UNCHANGED delivered

Call_unregister_for_proxied_messages ==
    /\ called.n < MaxCalls
    /\ \E proxy_address \in AddressMenu :
           LET r == unregister_for_proxied_messages(Here, proxy_address)
           IN ServiceCalled("unregister_for_proxied_messages",
                            [proxy_address |-> proxy_address],
                            r.S, r.error, 0)
    /\ UNCHANGED delivered

\* receive_proxied_message, with the number of times the frame reached the
\* adapter's receive_proxied_message
Call_receive_proxied_message ==
    /\ called.n < MaxCalls
    /\ delivered < MaxFrames
    /\ delivered' = delivered + 1
    /\ \E proxy_address \in AddressMenu :
           ServiceCalled("receive_proxied_message",
                         [proxy_address |-> proxy_address, msg |-> GetResponse],
                         Publish(Here, Entry(proxy_address, GetResponse),
                                 event_bus[proxy_address]),
                         "", event_bus[proxy_address])

\* The adapter's operations as the agent's core-facing service calls them:
\* adopt_device schedules the activation and returns the device,
\* update_flows_bulk runs to its first wait or to its end and returns a
\* Deferred, the others raise NotImplementedError.
AdapterOp(S, op, args) ==
    CASE op = "adopt_device" ->
           [S |-> [S EXCEPT !.tasks =
                       Append(@, NewTask("activation", args.device, <<>>))],
            error |-> "", result |-> args.device]
      [] op = "update_flows_bulk" ->
           [S |-> BulkContinue(
                      [S EXCEPT !.tasks =
                          Append(@, NewTask("flows", args.device, args.flows))],
                      Len(S.tasks) + 1),
            error |-> "", result |-> "Deferred"]
      [] OTHER ->
           [S |-> S, error |-> "NotImplementedError", result |-> "None"]

CoreFacingOps ==
    {"adopt_device", "abandon_device", "disable_device", "reenable_device",
     "reboot_device", "delete_device", "get_device_details",
     "update_flows_bulk", "update_flows_incrementally"}

\* The core-facing service: `return self.adapter.<op>(...)`, except
\* update_flows_incrementally, which calls itself.  calls lists the
\* invocations of the adapter.
RECURSIVE CoreFacing(_, _, _, _)
CoreFacing(S, op, args, depth) ==
    IF op = "update_flows_incrementally"
    THEN IF depth >= RecursionLimit
         THEN [S |-> S, error |-> "RuntimeError", result |-> "None",
               calls |-> <<>>]
         ELSE CoreFacing(S, op, args, depth + 1)
    ELSE LET r == AdapterOp(S, op, args)
         IN [S |-> r.S, error |-> r.error, result |-> r.result,
             calls |-> <<[op |-> op, args |-> args, error |-> r.error,
                          result |-> r.result]>>]

CoreFacingArgs(op) ==
    IF op \in {"update_flows_bulk", "update_flows_incrementally"}
    THEN [device |-> OnuA, flows |-> <<DownstreamMulticast>>]
    ELSE [device |-> OnuA]

Call_core_facing ==
    /\ called.n < MaxCalls
    /\ Len(tasks) < MaxTasks
    /\ \E op \in CoreFacingOps :
           LET r == CoreFacing(Here, op, CoreFacingArgs(op), 0)
           IN ServiceCalled(op, CoreFacingArgs(op), r.S, r.error,
                            [result |-> r.result, calls |-> r.calls])
    /\ UNCHANGED delivered

\* the logical devices the adapter hands to create_logical_device: without
\* an id, and with an id and a datapath id of its own
LogicalDeviceMenu ==
    {LogicalDevice("", 0), LogicalDevice("2", 5), LogicalDevice("ld7", 2)}

Call_create_logical_device ==
    /\ called.n < MaxCalls
    /\ \E logical_device \in LogicalDeviceMenu :
           LET r == create_logical_device(Here, logical_device)
           IN ServiceCalled("create_logical_device",
                            [logical_device |-> logical_device],
                            r.S, r.error, r.out)
    /\ UNCHANGED delivered

Call_delete_logical_device ==
    /\ called.n < MaxCalls
    /\ \E id \in DOMAIN root_proxy.logical_devices :
           LET logical_device == root_proxy.logical_devices[id] IN
           \E r \in delete_logical_device(Here, logical_device) :
               ServiceCalled("delete_logical_device",
                             [logical_device |-> logical_device],
                             r.S, r.error, r.out)
    /\ UNCHANGED delivered

ServiceNext ==
    \/ Call_core_facing
    \/ Call_create_logical_device
    \/ Call_delete_logical_device
    \/ Call_register_for_proxied_messages
    \/ Call_unregister_for_proxied_messages
    \/ Call_receive_proxied_message

ServiceSpec == Init /\ [][ServiceNext]_vars

(***************************************************************************)
(* update_flows_bulk over the rules it distinguishes: the direction, the   *)
(* match fields and the actions of a rule.  One ONU is onboarded, the      *)
(* transport delivers replies for it, and the rule lists come from a menu  *)
(* with one rule per case and a few lists of two rules.                    *)
(***************************************************************************)
Mcast224 == Uint32(57344, 257)          \* 224.0.1.1
Mcast239 == Uint32(61185, 515)          \* 239.1.2.3
Unicast192 == Uint32(49320, 266)        \* 192.168.1.10
Unicast10 == Uint32(2560, 1)            \* 10.0.0.1

Output == Action("OUTPUT", 0, "", "")
PopVlan == Action("POP_VLAN", 0, "", "")
PushVlan(ethertype) == Action("PUSH_VLAN", ethertype, "", "")
SetField(oxm_class, field_type) == Action("SET_FIELD", 0, oxm_class, field_type)

DownstreamSsdp ==
    Flow(1000, <<Field("IN_PORT", 1), Field("ETH_TYPE", 2048),
                 Field("IPV4_DST", Mcast239)>>, <<Output>>)
DownstreamUnicast ==
    Flow(1000, <<Field("IN_PORT", 1), Field("IPV4_DST", Unicast192)>>, <<Output>>)
DownstreamUnicast10 ==
    Flow(1000, <<Field("IN_PORT", 1), Field("IPV4_DST", Unicast10)>>, <<Output>>)
DownstreamNoIp ==
    Flow(1000, <<Field("IN_PORT", 1), Field("ETH_TYPE", 2048),
                 Field("IP_PROTO", 17), Field("VLAN_VID", 4096),
                 Field("VLAN_PCP", 0), Field("UDP_DST", 67)>>,
         <<PopVlan, Output>>)
DownstreamIpThenUnsupported ==
    Flow(1000, <<Field("IN_PORT", 1), Field("IPV4_DST", Mcast224),
                 Field("TCP_DST", 80)>>, <<Output>>)
DownstreamUnsupportedFirst ==
    Flow(1000, <<Field("IN_PORT", 1), Field("TCP_DST", 80),
                 Field("IPV4_DST", Mcast224)>>, <<Output>>)
DownstreamSetFieldPcp ==
    Flow(1000, <<Field("IN_PORT", 1), Field("VLAN_VID", 4096)>>,
         <<SetField("OFPXMC_OPENFLOW_BASIC", "VLAN_PCP"), Output>>)
DownstreamBadTpid ==
    Flow(1000, <<Field("IN_PORT", 1), Field("ETH_TYPE", 2048)>>,
         <<PushVlan(34984), SetField("OFPXMC_OPENFLOW_BASIC", "VLAN_VID"),
           Output>>)
DownstreamBadTpidIp ==
    Flow(1000, <<Field("IN_PORT", 1), Field("IPV4_DST", Mcast224)>>,
         <<PushVlan(34984), Output>>)
UpstreamIpv4 ==
    Flow(500, <<Field("IN_PORT", 2), Field("ETH_TYPE", 2048),
                Field("IPV4_DST", Mcast224)>>, <<Output>>)
UpstreamUnsupported ==
    Flow(500, <<Field("IN_PORT", 2), Field("TCP_DST", 80)>>, <<Output>>)
UpstreamGroupAction ==
    Flow(500, <<Field("IN_PORT", 2), Field("ETH_TYPE", 2048)>>,
         <<Action("GROUP", 0, "", ""), Output>>)
UpstreamBadTpid ==
    Flow(500, <<Field("IN_PORT", 2), Field("VLAN_VID", 4096)>>,
         <<PushVlan(34984), Output>>)
UpstreamBadTpidBadClass ==
    Flow(500, <<Field("IN_PORT", 2), Field("VLAN_VID", 4096)>>,
         <<PushVlan(34984), SetField("OFPXMC_EXPERIMENTER", "VLAN_VID")>>)
OtherPort ==
    Flow(500, <<Field("IN_PORT", 3), Field("TCP_DST", 80),
                Field("IPV4_DST", Mcast224)>>,
         <<Action("GROUP", 0, "", "")>>)
NoInPort ==
    Flow(500, <<Field("TCP_DST", 80), Field("IPV4_DST", Mcast224)>>,
         <<Action("GROUP", 0, "", "")>>)

RuleMenu ==
    { DownstreamMulticast, DownstreamSsdp, DownstreamUnicast,
      DownstreamUnicast10, DownstreamNoIp, DownstreamIpThenUnsupported,
      DownstreamUnsupportedFirst, DownstreamSetFieldPcp, DownstreamBadTpid,
      DownstreamBadTpidIp, Upstream, UpstreamIpv4, UpstreamUnsupported,
      UpstreamGroupAction, UpstreamBadTpid, UpstreamBadTpidBadClass,
      OtherPort, NoInPort }

RuleListMenu ==
    { <<rule>> : rule \in RuleMenu }
    \cup { <<UpstreamBadTpid, DownstreamSsdp>>,
           <<DownstreamBadTpid, DownstreamSsdp>>,
           <<DownstreamBadTpidIp, DownstreamSsdp>>,
           <<UpstreamIpv4, Upstream>>,
           <<DownstreamTwo>>,
           <<UpstreamUnsupported, DownstreamSsdp>>,
           <<DownstreamUnsupportedFirst, DownstreamSsdp>>,
           <<OtherPort, DownstreamSsdp>>,
           <<NoInPort, DownstreamSsdp>>,
           <<DownstreamMulticast, OtherPort, DownstreamSsdp>> }

ReplyMenu == {GetResponse, SetResponseOk, SetResponseBad}

FlowsNext ==
    \/ adopt_device(OnuA)
    \/ \E t \in 1..Len(tasks) : _onu_device_activation(t)
    \/ \E flows \in RuleListMenu : update_flows_bulk(OnuA, flows)
    \/ \E msg \in ReplyMenu : receive_proxied_message(OnuA.proxy_address, msg)

FlowsSpec == Init /\ [][FlowsNext]_vars

(***************************************************************************)
(* Vocabulary of the properties.                                           *)
(***************************************************************************)
TaskIds == 1..Len(tasks)
Last(s) == s[Len(s)]
CallsOf(tk, op) == SelectSeq(tk.calls, LAMBDA c : c.op = op)
Classified(msg, name) ==
    /\ _voltha_get_oam_msg_type(msg).error = ""
    /\ _voltha_get_oam_msg_type(msg).respType = RxedOamMsgTypeEnum[name]
IsSetResponse(msg) == Classified(msg, "DPoE Set Response")
IsActivation(tk) == tk.kind = "activation"
LacksLinkage(device) ==
    \/ device.parent_id = ""
    \/ device.proxy_address.device_id = ""
    \/ device.proxy_address.channel_id = 0
IsActiveUpdate(c, device_id) ==
    /\ c.op = "update_device"
    /\ c.arg.device.id = device_id
    /\ c.arg.device.oper_status = "ACTIVE"
IsSetRequestSend(c) ==
    c.op = "send_proxied_message" /\ c.arg.msg.msg = "SetRequest"
\* the task has sent a Set-Request and has taken at least one frame since
InWait(tk) == tk.rx # <<>>

(***************************************************************************)
(* C1.  During a wait for a Set Response the exchange resolves on the      *)
(* first frame classified as DPoE Set Response, whatever frames come       *)
(* before it: every frame taken off the queue before it has been passed    *)
(* to _voltha_check_resp exactly once and in arrival order, the resolving  *)
(* frame has not, and the wait ends in no other way than by resolving.     *)
(***************************************************************************)
C1_ResolvesOnFirstSetResponse ==
    \A t \in TaskIds :
        LET tk == tasks[t] IN
        /\ tk.handled = SelectSeq(tk.rx, LAMBDA e : ~IsSetResponse(e.msg))
        /\ \A i \in 1..Len(tk.rx) :
               IsSetResponse(tk.rx[i].msg) => (i = Len(tk.rx) /\ tk.acked)
        /\ tk.acked => (InWait(tk) /\ IsSetResponse(Last(tk.rx).msg))
        /\ (InWait(tk) /\ ~tk.acked) => tk.pc = "wait_set"

(***************************************************************************)
(* C2.  An unsolicited frame (Event Notification, OMCI message, Unknown)   *)
(* taken during a wait never interrupts the exchange: _voltha_check_resp   *)
(* returns without raising and the task goes on waiting; after the frames  *)
(* Event Notification, OMCI message, Set Response the exchange has         *)
(* resolved on the third frame with exactly two handler invocations.       *)
(***************************************************************************)
C2_UnsolicitedNeverInterrupts ==
    \A t \in TaskIds :
        LET tk == tasks[t] IN
        /\ tk.raised_in # "_voltha_check_resp"
        /\ ( /\ InWait(tk)
             /\ \/ Classified(Last(tk.rx).msg, "Event Notification")
                \/ Classified(Last(tk.rx).msg, "OMCI Message")
                \/ Classified(Last(tk.rx).msg, "Unknown") )
           => tk.pc = "wait_set"
        /\ ( /\ Len(tk.rx) >= 3
             /\ Classified(tk.rx[1].msg, "Event Notification")
             /\ Classified(tk.rx[2].msg, "OMCI Message")
             /\ Classified(tk.rx[3].msg, "DPoE Set Response") )
           => (tk.acked /\ Len(tk.rx) = 3 /\ Len(tk.handled) = 2)

(***************************************************************************)
(* C3.  A device is marked Active only after the handshake saw its Set     *)
(* Response and the attribute walk of that response did not fail hard;     *)
(* after a hard failure (a code above 0x80) the device is not marked       *)
(* Active and start_kpi_collection is not called for it.                   *)
(***************************************************************************)
C3_ActiveOnlyAfterCleanSetResponse ==
    \A t \in TaskIds :
        LET tk == tasks[t] IN
        IsActivation(tk) =>
            /\ (\E i \in 1..Len(tk.calls) : IsActiveUpdate(tk.calls[i], tk.device.id))
                   => (tk.acked /\ tk.resp.rc)
            /\ (tk.acked /\ ~tk.resp.rc /\ tk.resp.status > 128)
                   => /\ \A i \in 1..Len(tk.calls) :
                             ~IsActiveUpdate(tk.calls[i], tk.device.id)
                      /\ CallsOf(tk, "start_kpi_collection") = <<>>

(***************************************************************************)
(* C4.  An onboarding that completes has made exactly five registry        *)
(* writes, in this order: update_device with the identity fields,          *)
(* add_port of the UNI port 2, add_port of the PON port 1 whose only peer  *)
(* is (parent_id, parent_port_no), add_logical_port on the parent's        *)
(* logical device with id and number the proxy channel id, and - after     *)
(* both handshake frames were sent - update_device with oper_status        *)
(* ACTIVE.                                                                 *)
(***************************************************************************)
RegistryWrites(tk) ==
    SelectSeq(tk.calls,
              LAMBDA c : c.op \in {"update_device", "add_port", "add_logical_port"})

C4_OnboardingWrites ==
    \A t \in TaskIds :
        LET tk == tasks[t]
            d == tk.device
            w == RegistryWrites(tk)
        IN (IsActivation(tk) /\ tk.pc = "done") =>
            /\ Len(w) = 5
            /\ w[1].op = "update_device"
            /\ w[1].arg.device.id = d.id
            /\ w[1].arg.device.vendor # ""
            /\ w[1].arg.device.model # ""
            /\ w[1].arg.device.hardware_version # ""
            /\ w[1].arg.device.firmware_version # ""
            /\ w[1].arg.device.software_version # ""
            /\ w[1].arg.device.serial_number # ""
            /\ w[1].arg.device.oper_status # "ACTIVE"
            /\ w[2].op = "add_port"
            /\ w[2].arg.device_id = d.id
            /\ w[2].arg.port.port_no = 2
            /\ w[2].arg.port.type = "ETHERNET_UNI"
            /\ w[3].op = "add_port"
            /\ w[3].arg.device_id = d.id
            /\ w[3].arg.port.port_no = 1
            /\ w[3].arg.port.type = "PON_ONU"
            /\ w[3].arg.port.peers = <<PeerPort(d.parent_id, d.parent_port_no)>>
            /\ w[4].op = "add_logical_port"
            /\ w[4].arg.logical_device_id = root_proxy.devices[d.parent_id].parent_id
            /\ w[4].arg.port.id = ToString(d.proxy_address.channel_id)
            /\ w[4].arg.port.port_no = d.proxy_address.channel_id
            /\ IsActiveUpdate(w[5], d.id)
            /\ \A i, j \in 1..Len(tk.calls) :
                   ( /\ tk.calls[i].op = "send_proxied_message"
                     /\ tk.calls[j].op \in {"update_device", "add_port",
                                            "add_logical_port"} )
                   => (j < i <=> ~(tk.calls[j].op = "update_device"
                                   /\ tk.calls[j].arg.device.oper_status = "ACTIVE"))
            /\ Len(CallsOf(tk, "send_proxied_message")) = 2

C4_Witness ==
    \E t \in TaskIds :
        /\ IsActivation(tasks[t])
        /\ tasks[t].pc = "done"
        /\ ~LacksLinkage(tasks[t].device)

(***************************************************************************)
(* C5.  Onboarding a device without a parent id, a proxy device id or a    *)
(* proxy channel id stops before any side effect: the task makes no call   *)
(* on the agent (no update_device, add_port, add_logical_port, no          *)
(* registration, no send), takes no frame, and the registry and the        *)
(* subscriptions of that device are as they were.                          *)
(***************************************************************************)
C5_NoSideEffectWithoutLinkage ==
    \A t \in TaskIds :
        LET tk == tasks[t]
            d == tk.device
        IN (IsActivation(tk) /\ LacksLinkage(d)) =>
            /\ tk.calls = <<>>
            /\ tk.dequeued = <<>>
            /\ tk.pc \in {"scheduled", "raised"}
            /\ root_proxy.devices[d.id] = d
            /\ DOMAIN root_proxy.ports[d.id] = {}
            /\ event_bus[d.proxy_address] = 0
            /\ looping_calls[d.id] = 0

C5_Witness ==
    \E t \in TaskIds :
        /\ IsActivation(tasks[t])
        /\ tasks[t].device.proxy_address.channel_id = 0
        /\ tasks[t].pc = "raised"

(***************************************************************************)
(* C6.  Whenever onboarding fails, at whatever step, the device ends       *)
(* Failed and the failure is written to the device's status in the         *)
(* registry.                                                               *)
(***************************************************************************)
C6_FailureWrittenToRegistry ==
    \A t \in TaskIds :
        (IsActivation(tasks[t]) /\ tasks[t].pc = "raised")
            => root_proxy.devices[tasks[t].device.id].oper_status = "FAILED"

(***************************************************************************)
(* C7.  At any time at most one task per device is suspended reading the   *)
(* inbound frames (at most one pending exchange per device), for any       *)
(* interleaving of adopt_device and update_flows_bulk on the device.       *)
(***************************************************************************)
C7_OneExchangePerDevice ==
    \A i, j \in 1..Len(waiting) :
        i # j => tasks[waiting[i]].device.id # tasks[waiting[j]].device.id

(***************************************************************************)
(* C8.  An exchange only ever takes frames that were delivered for its     *)
(* own device's proxy address.                                             *)
(***************************************************************************)
C8_OnlyOwnFrames ==
    \A t \in TaskIds :
        \A i \in 1..Len(tasks[t].dequeued) :
            tasks[t].dequeued[i].proxy_address = tasks[t].device.proxy_address

(***************************************************************************)
(* C9.  The handshake sends its Set-Request only after a frame classified  *)
(* as DPoE Get Response was received in reply to the Get-Request: the      *)
(* frame that ends the first wait is a Get Response.                       *)
(***************************************************************************)
C9_SetRequestAfterGetResponse ==
    \A t \in TaskIds :
        LET tk == tasks[t] IN
        IsActivation(tk) =>
            /\ \A i \in 1..Len(tk.dequeued) :
                   tk.dequeued[i].at = "get"
                       => Classified(tk.dequeued[i].msg, "DPoE Get Response")
            /\ (\E i \in 1..Len(tk.calls) : IsSetRequestSend(tk.calls[i]))
                   => \E i \in 1..Len(tk.dequeued) : tk.dequeued[i].at = "get"

(***************************************************************************)
(* C10. start_kpi_collection is called exactly once by an onboarding that  *)
(* reaches Active, right after its Active status update, and never by an   *)
(* onboarding that has not reached Active; each call starts one            *)
(* LoopingCall for the device.                                             *)
(***************************************************************************)
C10_KpiOncePerActive ==
    /\ \A t \in TaskIds :
           LET tk == tasks[t]
               n == Len(tk.calls)
           IN IsActivation(tk) =>
               IF tk.pc = "done"
               THEN /\ Len(CallsOf(tk, "start_kpi_collection")) = 1
                    /\ n >= 2
                    /\ tk.calls[n].op = "start_kpi_collection"
                    /\ tk.calls[n].arg.device_id = tk.device.id
                    /\ IsActiveUpdate(tk.calls[n - 1], tk.device.id)
               ELSE /\ CallsOf(tk, "start_kpi_collection") = <<>>
                    /\ \A i \in 1..n : ~IsActiveUpdate(tk.calls[i], tk.device.id)
    /\ \A id \in DOMAIN looping_calls :
           looping_calls[id] =
               Cardinality({t \in TaskIds : /\ IsActivation(tasks[t])
                                            /\ tasks[t].pc = "done"
                                            /\ tasks[t].device.id = id})

C10_Witness ==
    \E t \in TaskIds :
        /\ IsActivation(tasks[t])
        /\ tasks[t].pc = "done"
        /\ looping_calls[tasks[t].device.id] = 1

(***************************************************************************)
(* C11. The exchange has no time bound: a task that has sent its           *)
(* Set-Request and has not been delivered a frame classified as Set        *)
(* Response stays suspended in the wait - it does not abandon the wait,    *)
(* and the device is not marked Active - whatever other frames arrive.     *)
(***************************************************************************)
SentSetRequest(tk) == \E i \in 1..Len(tk.calls) : IsSetRequestSend(tk.calls[i])

C11_WaitsUntilSetResponse ==
    \A t \in TaskIds :
        LET tk == tasks[t] IN
        ( /\ SentSetRequest(tk)
          /\ \A i \in 1..Len(tk.rx) : ~IsSetResponse(tk.rx[i].msg) )
        => /\ tk.pc = "wait_set"
           /\ t \in {waiting[i] : i \in 1..Len(waiting)}
           /\ \A i \in 1..Len(tk.calls) : ~IsActiveUpdate(tk.calls[i], tk.device.id)

(***************************************************************************)
(* Vocabulary of the properties of the parsing functions.                  *)
(***************************************************************************)
Classifying == parsed.fn = "_voltha_get_oam_msg_type"
Returned(name) == parsed.out = [error |-> "", respType |-> RxedOamMsgTypeEnum[name]]
\* the first three bytes of the body are the given OUI
HasOui(load, ouis) == Len(load) >= 3 /\ SubSeq(load, 1, 3) \in ouis
Oui_ITU == {<<0, 25, 167>>}                        \* 0x0019A7
Oui_DPoE == {<<0, 16, 0>>, <<42, 234, 21>>}        \* 0x001000, 0x2AEA15

(***************************************************************************)
(* C12. Classification returns OMCI Message for opcode 0xFE with OUI       *)
(* 0x0019A7 whatever follows the OUI; Get Response, Set Response, File     *)
(* Transfer for opcode 0xFE with OUI 0x001000 or 0x2AEA15 and sub-opcode   *)
(* 0x02, 0x04, 0x09; Event Notification for opcode 0x01 whatever the body  *)
(* bytes are.                                                              *)
(***************************************************************************)
C12_ClassifiesRecognised ==
    (Classifying /\ parsed.frame.has_body) =>
        LET opcode == parsed.frame.opcode
            load == parsed.frame.load
            dpoe(sub) == /\ opcode = 254
                         /\ HasOui(load, Oui_DPoE)
                         /\ Len(load) >= 4
                         /\ load[4] = sub
        IN /\ (opcode = 254 /\ HasOui(load, Oui_ITU)) => Returned("OMCI Message")
           /\ dpoe(2) => Returned("DPoE Get Response")
           /\ dpoe(4) => Returned("DPoE Set Response")
           /\ dpoe(9) => Returned("DPoE File Transfer")
           /\ opcode = 1 => Returned("Event Notification")

C12_Witness ==
    /\ Classifying
    /\ parsed.frame = [has_body |-> TRUE, opcode |-> 254, load |-> <<0, 25, 167>>]
    /\ Returned("OMCI Message")

(***************************************************************************)
(* C13. Classification returns Unknown, without failing, for opcode 0xFE   *)
(* with an OUI other than 0x0019A7, 0x001000, 0x2AEA15; for opcode 0xFE    *)
(* with a DPoE OUI and a sub-opcode other than 0x02, 0x04, 0x09; and for   *)
(* any opcode other than 0xFE and 0x01.  It never returns Info.            *)
(***************************************************************************)
C13_UnknownOtherwise ==
    Classifying =>
        LET opcode == parsed.frame.opcode
            load == parsed.frame.load
        IN /\ parsed.out.respType # 1
           /\ parsed.frame.has_body =>
                /\ ( /\ opcode = 254
                     /\ Len(load) >= 3
                     /\ ~HasOui(load, Oui_ITU \cup Oui_DPoE) ) => Returned("Unknown")
                /\ ( /\ opcode = 254
                     /\ HasOui(load, Oui_DPoE)
                     /\ Len(load) >= 4
                     /\ load[4] \notin {2, 4, 9} ) => Returned("Unknown")
                /\ opcode \notin {254, 1} => Returned("Unknown")

C13_Witness ==
    /\ Classifying
    /\ parsed.frame = [has_body |-> TRUE, opcode |-> 0, load |-> <<42, 234, 21, 4>>]
    /\ Returned("Unknown")

(***************************************************************************)
(* C14. Classification never raises on a malformed buffer: a frame with    *)
(* no body is Unknown, and so is an opcode-0xFE frame whose body is        *)
(* shorter than the 3-byte OUI or carries a DPoE OUI and no sub-opcode     *)
(* byte.                                                                   *)
(***************************************************************************)
C14_MalformedIsUnknown ==
    Classifying =>
        LET opcode == parsed.frame.opcode
            load == parsed.frame.load
        IN /\ parsed.out.error = ""
           /\ ~parsed.frame.has_body => Returned("Unknown")
           /\ (opcode = 254 /\ Len(load) < 3) => Returned("Unknown")
           /\ (opcode = 254 /\ HasOui(load, Oui_DPoE) /\ Len(load) = 3)
                  => Returned("Unknown")

(***************************************************************************)
(* The records of a buffer as the specification reads them, from the       *)
(* 0-based position pos: a record is branch (1 byte), leaf (2 bytes),      *)
(* length (1 byte) and, when length < 0x80, length value bytes; a length   *)
(* of 0x80 or more is a response code and no value follows.  The list      *)
(* ends with the end marker (branch 0), with the first record whose code   *)
(* is above 0x80, or where the buffer holds no further complete header.    *)
(***************************************************************************)
SetWalking == parsed.fn = "_voltha_check_set_resp_attrs"

RECURSIVE RecordsFrom(_, _)
RecordsFrom(buf, pos) ==
    IF pos + 3 > Len(buf) THEN <<>>
    ELSE LET leaf == buf[pos + 2] * 256 + buf[pos + 3] IN
         IF buf[pos + 1] = 0
         THEN << [branch |-> 0, leaf |-> leaf, length |-> 0, at |-> pos] >>
         ELSE IF pos + 4 > Len(buf) THEN <<>>
         ELSE LET rec == [branch |-> buf[pos + 1], leaf |-> leaf,
                          length |-> buf[pos + 4], at |-> pos]
              IN IF rec.length > 128 THEN <<rec>>
                 ELSE IF rec.length = 128
                 THEN <<rec>> \o RecordsFrom(buf, pos + 4)
                 ELSE <<rec>> \o RecordsFrom(buf, pos + 4 + rec.length)

WalkedRecords == RecordsFrom(parsed.loadstr, parsed.startOfTlvs)
\* the walk came to a record answered with a code above 0x80
HardFailure(recs) ==
    recs # <<>> /\ Last(recs).branch # 0 /\ Last(recs).length > 128

(***************************************************************************)
(* C15. The Set-Response attribute walk returns failure if and only if,    *)
(* before the first record with branch 0, it reaches a record whose        *)
(* length byte is above 0x80; it then reports that record's branch, leaf   *)
(* and code.  Records with length below 0x80 are skipped by exactly        *)
(* length value bytes, and a buffer that starts with a branch-0 record     *)
(* returns success at once.                                                *)
(***************************************************************************)
C15_FailsIffHardCode ==
    SetWalking =>
        LET recs == WalkedRecords
            out == parsed.out
        IN /\ (out.error = "" /\ ~out.rc) <=> HardFailure(recs)
           /\ HardFailure(recs) =>
                  /\ out.branch = Last(recs).branch
                  /\ out.leaf = Last(recs).leaf
                  /\ out.status = Last(recs).length
           /\ (recs # <<>> /\ recs[1].branch = 0) => (out.error = "" /\ out.rc)

\* a record whose four value bytes look like a failed record is skipped,
\* and the walk fails on the record after it
C15_Witness ==
    /\ SetWalking
    /\ Len(WalkedRecords) = 2
    /\ WalkedRecords[1].length = 4
    /\ WalkedRecords[2].length = 134
    /\ WalkedRecords[2].leaf # WalkedRecords[1].leaf
    /\ ~parsed.out.rc
    /\ parsed.out.leaf = WalkedRecords[2].leaf

(***************************************************************************)
(* C16. The attribute walks return a result on every buffer: they end at   *)
(* a record with branch 0 or when the buffer is exhausted, and a buffer    *)
(* that ends without an end marker ends the walk normally, not with a      *)
(* read past the end of the buffer.                                        *)
(***************************************************************************)
C16_WalksAlwaysReturn ==
    parsed.fn \in {"_voltha_check_set_resp_attrs", "_voltha_handle_get_value"}
        => parsed.out.error = ""

(***************************************************************************)
(* C17. In the Set-Response walk a record whose length byte is exactly     *)
(* 0x80 is recoverable: the walk does not fail on it, takes no value       *)
(* bytes for it - the next record header is read in the 4 bytes right      *)
(* after it - and goes on with the records that follow.                    *)
(***************************************************************************)
C17_NoErrorCodeContinues ==
    SetWalking =>
        LET buf == parsed.loadstr
            p == parsed.startOfTlvs + 4          \* right after the first record
            out == parsed.out
        IN (Len(buf) >= p /\ buf[p - 3] # 0 /\ buf[p] = 128) =>
            /\ (out.error = "" /\ ~out.rc) => out.status # 128
            /\ (Len(buf) >= p + 3 /\ buf[p + 1] = 0) =>
                   (out.error = "" /\ out.rc /\ out.status = 128)
            /\ (Len(buf) >= p + 4 /\ buf[p + 1] # 0 /\ buf[p + 4] > 128) =>
                   /\ out.error = ""
                   /\ ~out.rc
                   /\ out.branch = buf[p + 1]
                   /\ out.leaf = buf[p + 2] * 256 + buf[p + 3]
                   /\ out.status = buf[p + 4]

C17_Witness ==
    /\ SetWalking
    /\ parsed.startOfTlvs = 4
    /\ Len(parsed.loadstr) >= 12
    /\ SubSeq(parsed.loadstr, 5, 12) = <<215, 0, 1, 128, 215, 0, 2, 134>>
    /\ parsed.out = [error |-> "", rc |-> FALSE, branch |-> 215, leaf |-> 2,
                     status |-> 134]

(***************************************************************************)
(* C18. When the Set-Response walk stops successfully at a branch-0 end    *)
(* marker after at least one attribute record, the branch, leaf and        *)
(* length it reports are those of the last attribute record before the     *)
(* marker, not the marker's own bytes.                                     *)
(***************************************************************************)
C18_ReportsLastRecord ==
    SetWalking =>
        LET recs == WalkedRecords
            n == Len(recs)
            out == parsed.out
        IN (n >= 2 /\ recs[n].branch = 0) =>
            /\ out.error = ""
            /\ out.rc
            /\ out.branch = recs[n - 1].branch
            /\ out.leaf = recs[n - 1].leaf
            /\ out.status = recs[n - 1].length

(***************************************************************************)
(* The attributes of a buffer as the Get-Value walk is specified to read   *)
(* them: a length byte of 0 stands for 128 value bytes, a length byte of   *)
(* 0x80 or more is a response code without value.  The list ends with the  *)
(* end marker (branch 0) or where the buffer holds no further complete     *)
(* attribute.                                                              *)
(***************************************************************************)
GetWalking == parsed.fn = "_voltha_handle_get_value"

ValueLength(length) ==
    IF length >= 128 THEN 0 ELSE IF length = 0 THEN 128 ELSE length

RECURSIVE AttrsFrom(_, _)
AttrsFrom(buf, pos) ==
    IF pos + 3 > Len(buf) THEN <<>>
    ELSE LET leaf == buf[pos + 2] * 256 + buf[pos + 3] IN
         IF buf[pos + 1] = 0
         THEN << [branch |-> 0, leaf |-> leaf, length |-> 0, at |-> pos,
                  value |-> <<>>, end |-> pos + 3] >>
         ELSE IF pos + 4 > Len(buf) THEN <<>>
         ELSE LET end == pos + 4 + ValueLength(buf[pos + 4]) IN
              IF end > Len(buf) THEN <<>>
              ELSE << [branch |-> buf[pos + 1], leaf |-> leaf,
                       length |-> buf[pos + 4], at |-> pos,
                       value |-> SubSeq(buf, pos + 5, end), end |-> end] >>
                   \o AttrsFrom(buf, end)

\* v is the value of an attribute with the given length byte and value bytes:
\* the big-endian unsigned integer for lengths 1, 2, 4, 8 (an integer is kept
\* as its bytes without leading zero bytes), else the byte string
IsValueOf(v, length, bytes) ==
    IF length \in {1, 2, 4, 8}
    THEN /\ v.type = "int"
         /\ \E k \in 0..Len(bytes) :
                /\ \A i \in 1..k : bytes[i] = 0
                /\ v.bytes = SubSeq(bytes, k + 1, Len(bytes))
                /\ (v.bytes = <<>> \/ v.bytes[1] # 0)
    ELSE v = [type |-> "str", bytes |-> bytes]

Asked(attr) ==
    /\ attr.branch \notin {0, 214}
    /\ \/ (parsed.queryBranch = 0 /\ parsed.queryLeaf = 0)
       \/ (parsed.queryBranch = attr.branch /\ parsed.queryLeaf = attr.leaf)

(***************************************************************************)
(* C19. In the Get-Value walk an attribute with length byte 0 is read as   *)
(* a value of exactly 128 bytes and the cursor advances by 128; with       *)
(* length 1, 2, 4 or 8 it is read as a big-endian unsigned integer of      *)
(* that width and the cursor advances by that length; any other length     *)
(* below 0x80 is read as a byte string of that length.  Stated for the     *)
(* first attribute of the buffer when it is the one asked for.             *)
(***************************************************************************)
C19_ValueByLength ==
    GetWalking =>
        LET attrs == AttrsFrom(parsed.loadstr, parsed.startOfTlvs)
            out == parsed.out
        IN (attrs # <<>> /\ Asked(attrs[1]) /\ attrs[1].length < 128) =>
            /\ out.error = ""
            /\ out.retVal
            /\ IsValueOf(out.value, attrs[1].length, attrs[1].value)
            /\ Len(attrs[1].value) =
                   IF attrs[1].length = 0 THEN 128 ELSE attrs[1].length
            /\ out.bytesRead = parsed.startOfTlvs + 4 + Len(attrs[1].value)

C19_Witness ==
    /\ GetWalking
    /\ Len(parsed.loadstr) >= 132
    /\ SubSeq(parsed.loadstr, 1, 4) = <<215, 0, 1, 0>>
    /\ parsed.queryBranch = 215
    /\ parsed.queryLeaf = 1
    /\ parsed.out.retVal
    /\ parsed.out.bytesRead = 132
    /\ parsed.out.value = [type |-> "str", bytes |-> SubSeq(parsed.loadstr, 5, 132)]

(***************************************************************************)
(* C20. The Get-Value walk returns the first attribute, in buffer order,   *)
(* whose (branch, leaf) equals the queried pair, or the first attribute    *)
(* when both query fields are zero; attributes with branch 0xD6 are        *)
(* skipped and never returned, so a query for branch 0xD6 never succeeds;  *)
(* attributes before the match do not affect the returned value.  The      *)
(* walk stops at the first match and reports its branch and leaf; it       *)
(* returns the value when that attribute carries one.                      *)
(***************************************************************************)
C20_FirstMatch ==
    GetWalking =>
        LET attrs == AttrsFrom(parsed.loadstr, parsed.startOfTlvs)
            out == parsed.out
            hits == {i \in 1..Len(attrs) : Asked(attrs[i])}
        IN /\ (out.error = "" /\ out.retVal) => out.branch # 214
           /\ parsed.queryBranch = 214 => ~(out.error = "" /\ out.retVal)
           /\ hits # {} =>
                LET first == CHOOSE i \in hits : \A j \in hits : i <= j IN
                /\ out.error = ""
                /\ out.branch = attrs[first].branch
                /\ out.leaf = attrs[first].leaf
                /\ out.bytesRead = attrs[first].end
                /\ attrs[first].length < 128 =>
                       /\ out.retVal
                       /\ IsValueOf(out.value, attrs[first].length,
                                    attrs[first].value)

\* under the wildcard query a 0xD6 attribute with a value is passed over,
\* and the attribute after it is returned
C20_Witness ==
    /\ GetWalking
    /\ parsed.queryBranch = 0
    /\ parsed.queryLeaf = 0
    /\ Len(parsed.loadstr) >= 11
    /\ SubSeq(parsed.loadstr, 1, 11) = <<214, 0, 1, 1, 6, 215, 0, 2, 2, 1, 2>>
    /\ parsed.out = [error |-> "", retVal |-> TRUE, bytesRead |-> 11,
                     value |-> [type |-> "int", bytes |-> <<1, 2>>],
                     branch |-> 215, leaf |-> 2]

(***************************************************************************)
(* C29. The onboarding handshake sends exactly two frames to the device's  *)
(* proxy address, in this order: a Get-Request for the DeviceId, then a    *)
(* Set-Request with AddStaticMacAddress 01:00:5e:00:00:01.  Both are sent  *)
(* after the ports and the logical port were created and before the        *)
(* Active status update, and the registration for the device's proxied     *)
(* messages comes before the first send.                                   *)
(***************************************************************************)
IsPrefix(s, full) == Len(s) <= Len(full) /\ s = SubSeq(full, 1, Len(s))

C29_HandshakeSends ==
    \A t \in TaskIds :
        LET tk == tasks[t]
            ops == [i \in 1..Len(tk.calls) |-> tk.calls[i].op]
            sends == CallsOf(tk, "send_proxied_message")
            handshake ==
                << [proxy_address |-> tk.device.proxy_address,
                    msg |-> [msg |-> "GetRequest", attr |-> "DeviceId",
                             mac |-> <<>>]],
                   [proxy_address |-> tk.device.proxy_address,
                    msg |-> [msg |-> "SetRequest", attr |-> "AddStaticMacAddress",
                             mac |-> <<1, 0, 94, 0, 0, 1>>]] >>
        IN IsActivation(tk) =>
            /\ IsPrefix([i \in 1..Len(sends) |-> sends[i].arg], handshake)
            /\ IsPrefix(ops, <<"update_device", "add_port", "add_port",
                               "add_logical_port", "register_for_proxied_messages",
                               "send_proxied_message", "send_proxied_message",
                               "update_device", "start_kpi_collection">>)
            /\ tk.pc = "wait_get" => Len(sends) = 1
            /\ tk.pc \in {"wait_set", "done"} => Len(sends) = 2

C29_Witness ==
    \E t \in TaskIds :
        /\ IsActivation(tasks[t])
        /\ tasks[t].pc = "done"
        /\ Len(CallsOf(tasks[t], "send_proxied_message")) = 2
        /\ Len(CallsOf(tasks[t], "register_for_proxied_messages")) = 1

(***************************************************************************)
(* Vocabulary of the flow-rule properties.                                 *)
(***************************************************************************)
IsFlows(tk) == tk.kind = "flows"
SendsOf(tk) == CallsOf(tk, "send_proxied_message")
FieldsOfType(rule, type) == SelectSeq(rule.fields, LAMBDA f : f.type = type)
AllFieldsSupported(rule) ==
    \A i \in 1..Len(rule.fields) : rule.fields[i].type \in SupportedFields
\* 224.0.0.0/4
IsMulticast(v) == v.hi \div 4096 = 14
\* 01:00:5e and the low 23 bits of the address
Low23Mac(v) == <<1, 0, 94, (v.hi % 256) % 128, v.lo \div 256, v.lo % 256>>
SetRequestTo(tk, mac) ==
    [proxy_address |-> tk.device.proxy_address,
     msg |-> [msg |-> "SetRequest", attr |-> "AddStaticMacAddress", mac |-> mac]]
\* a rule with one multicast IPv4 destination and nothing the adapter rejects
MulticastRule(rule) ==
    /\ AllFieldsSupported(rule)
    /\ Len(FieldsOfType(rule, "IPV4_DST")) = 1
    /\ IsMulticast(FieldsOfType(rule, "IPV4_DST")[1].value)
IngressPort(rule) ==
    IF FieldsOfType(rule, "IN_PORT") = <<>> THEN -1
    ELSE FieldsOfType(rule, "IN_PORT")[1].value
SupportedActions == {"OUTPUT", "POP_VLAN", "PUSH_VLAN", "SET_FIELD"}
HasUnsupportedAction(rule) ==
    \E i \in 1..Len(rule.actions) :
        \/ rule.actions[i].type \notin SupportedActions
        \/ /\ rule.actions[i].type = "SET_FIELD"
           /\ rule.actions[i].field_type # "VLAN_VID"
HasBadTpid(rule) ==
    \E i \in 1..Len(rule.actions) :
        rule.actions[i].type = "PUSH_VLAN" /\ rule.actions[i].ethertype # 33024
HasForeignClass(rule) ==
    \E i \in 1..Len(rule.actions) :
        /\ rule.actions[i].type = "SET_FIELD"
        /\ rule.actions[i].oxm_class # "OFPXMC_OPENFLOW_BASIC"
\* a rule the adapter only reads: a direction, supported fields, no IPv4
\* destination, no SET_FIELD of a foreign class
OnlyRead(rule) ==
    /\ IngressPort(rule) \in {1, 2}
    /\ AllFieldsSupported(rule)
    /\ FieldsOfType(rule, "IPV4_DST") = <<>>
    /\ ~HasForeignClass(rule)

(***************************************************************************)
(* C21. A downstream rule (ingress port 1) that matches a multicast IPv4   *)
(* destination produces exactly one Set-Request, sent to the device's      *)
(* proxy address, whose AddStaticMacAddress MAC is 01:00:5e followed by    *)
(* the low 23 bits of the address: 224.0.1.1 gives 01:00:5e:00:01:01 and   *)
(* 239.1.2.3 gives 01:00:5e:01:02:03.                                      *)
(***************************************************************************)
C21_MulticastMacProgrammed ==
    \A t \in TaskIds :
        LET tk == tasks[t] IN
        (/\ IsFlows(tk)
         /\ Len(tk.flows) = 1
         /\ IngressPort(tk.flows[1]) = 1
         /\ MulticastRule(tk.flows[1])) =>
            LET dst == FieldsOfType(tk.flows[1], "IPV4_DST")[1].value
                sends == SendsOf(tk)
            IN /\ Len(sends) = 1
               /\ sends[1].arg = SetRequestTo(tk, Low23Mac(dst))
               /\ dst = Uint32(57344, 257) =>
                      sends[1].arg.msg.mac = <<1, 0, 94, 0, 1, 1>>
               /\ dst = Uint32(61185, 515) =>
                      sends[1].arg.msg.mac = <<1, 0, 94, 1, 2, 3>>

C21_Witness ==
    /\ Len(tasks) = 2
    /\ IsFlows(tasks[1]) /\ tasks[1].flows = <<DownstreamMulticast>>
    /\ IsFlows(tasks[2]) /\ tasks[2].flows = <<DownstreamSsdp>>
    /\ SendsOf(tasks[2]) = <<Call("send_proxied_message",
                                  SetRequestTo(tasks[2], <<1, 0, 94, 1, 2, 3>>))>>

(***************************************************************************)
(* C22. An upstream rule (ingress port 2) never produces an outbound       *)
(* command: a call whose rules are all upstream sends no frame and reads   *)
(* nothing from the inbound queue; it runs to its end at once.             *)
(***************************************************************************)
C22_UpstreamSendsNothing ==
    \A t \in TaskIds :
        LET tk == tasks[t] IN
        (/\ IsFlows(tk)
         /\ \A i \in 1..Len(tk.flows) : IngressPort(tk.flows[i]) = 2) =>
            /\ SendsOf(tk) = <<>>
            /\ tk.dequeued = <<>>
            /\ tk.rx = <<>>
            /\ tk.pc \in {"done", "raised"}
            /\ \A i \in 1..Len(waiting) : waiting[i] # t

C22_Witness ==
    \E t \in TaskIds :
        /\ IsFlows(tasks[t])
        /\ tasks[t].flows = <<UpstreamIpv4, Upstream>>
        /\ tasks[t].pc = "done"
        /\ pending # <<>>

(***************************************************************************)
(* C23. A downstream rule produces an outbound command only when its IPv4  *)
(* destination is a multicast address: with a destination that is not      *)
(* multicast, or with no IPV4_DST field, no frame is sent.                 *)
(***************************************************************************)
C23_OnlyMulticastSends ==
    \A t \in TaskIds :
        LET tk == tasks[t] IN
        (/\ IsFlows(tk)
         /\ Len(tk.flows) = 1
         /\ IngressPort(tk.flows[1]) = 1
         /\ AllFieldsSupported(tk.flows[1])
         /\ \A i \in 1..Len(tk.flows[1].fields) :
                tk.flows[1].fields[i].type = "IPV4_DST" =>
                    ~IsMulticast(tk.flows[1].fields[i].value)) =>
            SendsOf(tk) = <<>>

(***************************************************************************)
(* C24. A rule with a match field outside ETH_TYPE, IP_PROTO, IN_PORT,     *)
(* VLAN_VID, VLAN_PCP, UDP_DST, IPV4_DST is rejected with an error and no  *)
(* outbound command is sent for it, wherever the field stands in the rule, *)
(* also after the IPV4_DST field of a downstream rule.                     *)
(***************************************************************************)
C24_UnsupportedFieldRejected ==
    \A t \in TaskIds :
        LET tk == tasks[t] IN
        (/\ IsFlows(tk)
         /\ Len(tk.flows) = 1
         /\ IngressPort(tk.flows[1]) \in {1, 2}
         /\ ~AllFieldsSupported(tk.flows[1])) =>
            /\ SendsOf(tk) = <<>>
            /\ tk.pc = "raised"
            /\ tk.error = "NotImplementedError"

(***************************************************************************)
(* C25. A rule with an action outside OUTPUT, POP_VLAN, PUSH_VLAN,         *)
(* SET_FIELD, or with a SET_FIELD of a field other than VLAN_VID, is       *)
(* rejected: update_flows_bulk does not complete normally for it and no    *)
(* outbound command is sent.                                               *)
(***************************************************************************)
C25_UnsupportedActionRejected ==
    \A t \in TaskIds :
        LET tk == tasks[t] IN
        (/\ IsFlows(tk)
         /\ Len(tk.flows) = 1
         /\ IngressPort(tk.flows[1]) \in {1, 2}
         /\ AllFieldsSupported(tk.flows[1])
         /\ HasUnsupportedAction(tk.flows[1])) =>
            /\ SendsOf(tk) = <<>>
            /\ tk.pc # "done"

(***************************************************************************)
(* C26. The direction of a rule is decided by its ingress port alone: 2 is *)
(* upstream, 1 is downstream, and with any other port, or none, the call   *)
(* ends with an error before a match field or an action is inspected and   *)
(* before any frame is sent.                                               *)
(***************************************************************************)
C26_DirectionByIngressPort ==
    \A t \in TaskIds :
        LET tk == tasks[t]
            rule == tk.flows[1]
        IN (IsFlows(tk) /\ Len(tk.flows) = 1) =>
            /\ IngressPort(rule) \notin {1, 2} =>
                   /\ tk.pc = "raised"
                   /\ tk.raised_in = "update_flows_bulk"
                   /\ tk.error = IF IngressPort(rule) = -1
                                 THEN "AssertionError" ELSE "Exception"
                   /\ tk.calls = <<>>
                   /\ tk.dequeued = <<>>
            /\ IngressPort(rule) = 2 => SendsOf(tk) = <<>>
            /\ (IngressPort(rule) = 1 /\ MulticastRule(rule)) => SendsOf(tk) # <<>>

C26_Witness ==
    /\ Len(tasks) = 2
    /\ IsFlows(tasks[1]) /\ tasks[1].flows = <<OtherPort>>
    /\ tasks[1].error = "Exception"
    /\ IsFlows(tasks[2]) /\ tasks[2].flows = <<NoInPort>>
    /\ tasks[2].error = "AssertionError"

(***************************************************************************)
(* C30. A PUSH_VLAN action whose TPID is not 0x8100 is not fatal: it is    *)
(* logged, and the remaining actions of the rule and the remaining rules   *)
(* are still processed, for upstream and for downstream rules.             *)
(***************************************************************************)
C30_BadTpidNotFatal ==
    \A t \in TaskIds :
        LET tk == tasks[t]
            flows == tk.flows
        IN (IsFlows(tk) /\ HasBadTpid(flows[1]) /\ IngressPort(flows[1]) \in {1, 2}) =>
            \* nothing but such rules: the call returns normally
            /\ (\A i \in 1..Len(flows) : OnlyRead(flows[i])) => tk.pc = "done"
            \* the rule after it is programmed
            /\ (/\ Len(flows) = 2
                /\ OnlyRead(flows[1])
                /\ IngressPort(flows[2]) = 1
                /\ MulticastRule(flows[2])) =>
                   /\ Len(SendsOf(tk)) = 1
                   /\ SendsOf(tk)[1].arg =
                          SetRequestTo(tk, Low23Mac(
                              FieldsOfType(flows[2], "IPV4_DST")[1].value))
            \* the action after it is still looked at
            /\ (AllFieldsSupported(flows[1]) /\ HasForeignClass(flows[1])
                /\ FieldsOfType(flows[1], "IPV4_DST") = <<>>) =>
                   tk.pc = "raised" /\ tk.error = "AssertionError"
            \* a downstream rule with a destination: once its Set Response is
            \* in, the next rule is programmed
            /\ (/\ Len(flows) = 2
                /\ IngressPort(flows[1]) = 1 /\ MulticastRule(flows[1])
                /\ ~HasForeignClass(flows[1])
                /\ IngressPort(flows[2]) = 1 /\ MulticastRule(flows[2])) =>
                   /\ tk.pc \in {"wait_set", "done"}
                   /\ tk.pc = "done" => Len(SendsOf(tk)) = 2
                   /\ Len(SendsOf(tk)) = 2 =>
                          SendsOf(tk)[2].arg =
                              SetRequestTo(tk, Low23Mac(
                                  FieldsOfType(flows[2], "IPV4_DST")[1].value))

C30_Witness ==
    \E t \in TaskIds :
        /\ IsFlows(tasks[t])
        /\ tasks[t].flows = <<DownstreamBadTpidIp, DownstreamSsdp>>
        /\ tasks[t].pc = "done"
        /\ Len(SendsOf(tasks[t])) = 2

(***************************************************************************)
(* C27. After delete_all_peer_references(device_id) every port of that     *)
(* device has an empty peer list, however many peers it had (none, one,    *)
(* two or more), and the ports of the other devices are unchanged.         *)
(***************************************************************************)
C27_PeerListsEmptied ==
    (called.op = "delete_all_peer_references" /\ called.error = "") =>
        LET device_id == called.args.device_id IN
        /\ \A port_no \in DOMAIN root_proxy.ports[device_id] :
               root_proxy.ports[device_id][port_no].peers = <<>>
        /\ \A other \in DOMAIN root_proxy.ports \ {device_id} :
               root_proxy.ports[other] = called.before.ports[other]

(***************************************************************************)
(* C28. After remove_all_logical_ports(logical_device_id) that logical     *)
(* device has no logical ports, and the other logical devices are          *)
(* unchanged.                                                              *)
(***************************************************************************)
C28_LogicalPortsRemoved ==
    (/\ called.op = "remove_all_logical_ports"
     /\ called.args.logical_device_id \in DOMAIN called.before.logical_ports) =>
        LET logical_device_id == called.args.logical_device_id IN
        /\ DOMAIN root_proxy.logical_ports[logical_device_id] = {}
        /\ \A other \in DOMAIN root_proxy.logical_ports \ {logical_device_id} :
               root_proxy.logical_ports[other] = called.before.logical_ports[other]

(***************************************************************************)
(* C31. At the start of the onboarding handshake every frame pending in    *)
(* the inbound queue is taken off and discarded, neither classified nor    *)
(* passed to the handler of unsolicited frames: when the Get-Request has   *)
(* been sent the queue holds no frame from before the registration and     *)
(* reset.                                                                  *)
(***************************************************************************)
ResetOf(tk) == SelectSeq(tk.dequeued, LAMBDA d : d.at = "reset")

C31_QueueResetBeforeGetRequest ==
    \A t \in TaskIds :
        LET tk == tasks[t] IN
        (IsActivation(tk) /\ CallsOf(tk, "send_proxied_message") # <<>>) =>
            \* the frames discarded by the reset come before every other
            \* frame the task takes
            /\ IsPrefix(ResetOf(tk), tk.dequeued)
            \* none of them is among the classified or the handled frames
            /\ Len(tk.rx) <= Len(tk.dequeued) - Len(ResetOf(tk))
            /\ Len(tk.handled) <= Len(tk.rx)
            \* waiting for the reply to the Get-Request, the queue is empty
            /\ tk.pc = "wait_get" => pending = <<>>

C31_Witness ==
    \E t \in TaskIds :
        /\ IsActivation(tasks[t])
        /\ tasks[t].pc = "wait_get"
        /\ Len(ResetOf(tasks[t])) >= 1
        /\ tasks[t].rx = <<>>
        /\ pending = <<>>

(***************************************************************************)
(* C32. Within one update_flows_bulk call the flows are programmed one     *)
(* after the other: the Set-Request for a later IPV4_DST match, of the     *)
(* same or of a later rule, is not sent before a Set Response has been     *)
(* received for the Set-Request sent before it.  A Set Response whose      *)
(* attribute walk fails hard is logged and does not stop the processing of *)
(* the remaining fields, actions and rules.                                *)
(***************************************************************************)
SetResponsesTaken(tk) ==
    Len(SelectSeq(tk.dequeued, LAMBDA d : IsSetResponse(d.msg)))

RECURSIVE Ipv4Matches(_)
Ipv4Matches(flows) ==
    IF flows = <<>> THEN 0
    ELSE Len(FieldsOfType(Head(flows), "IPV4_DST")) + Ipv4Matches(Tail(flows))

\* rules the adapter accepts: downstream, supported fields, multicast
\* destinations, no SET_FIELD of a foreign class
Programmable(flows) ==
    \A i \in 1..Len(flows) :
        /\ IngressPort(flows[i]) = 1
        /\ AllFieldsSupported(flows[i])
        /\ ~HasForeignClass(flows[i])
        /\ \A j \in 1..Len(flows[i].fields) :
               flows[i].fields[j].type = "IPV4_DST" =>
                   IsMulticast(flows[i].fields[j].value)

OnlySetResponsesTaken(tk) ==
    \A i \in 1..Len(tk.dequeued) : IsSetResponse(tk.dequeued[i].msg)

C32_OneSetRequestAtATime ==
    \A t \in TaskIds :
        LET tk == tasks[t]
            sent == Len(SendsOf(tk))
            matches == Ipv4Matches(tk.flows)
        IN IsFlows(tk) =>
            \* never a second Set-Request ahead of a Set Response
            /\ sent <= 1 + SetResponsesTaken(tk)
            \* and with Set Responses only, failed ones included, the next
            \* match is programmed as soon as the Set Response is in
            /\ (Programmable(tk.flows) /\ OnlySetResponsesTaken(tk)) =>
                   /\ tk.pc # "raised"
                   /\ sent = IF SetResponsesTaken(tk) < matches
                             THEN 1 + SetResponsesTaken(tk) ELSE matches
                   /\ tk.pc = "done" <=> SetResponsesTaken(tk) = matches

C32_Witness ==
    \E t \in TaskIds :
        /\ IsFlows(tasks[t])
        /\ tasks[t].flows = <<DownstreamTwo>>
        /\ Len(tasks[t].dequeued) = 1
        /\ tasks[t].dequeued[1].msg = SetResponseBad
        /\ ~tasks[t].resp.rc
        /\ Len(SendsOf(tasks[t])) = 2
        /\ tasks[t].pc = "wait_set"

(***************************************************************************)
(* C33. When a rule of a bulk flow update is rejected - an unsupported     *)
(* match field, or an ingress port other than 1 or 2 - the whole           *)
(* update_flows_bulk call ends with that error: no rule after the rejected *)
(* one is inspected, no frame is sent for a later rule, and the frames     *)
(* sent for earlier rules stay sent.                                       *)
(***************************************************************************)
Rejected(rule) == IngressPort(rule) \notin {1, 2} \/ ~AllFieldsSupported(rule)
RejectionOf(rule) ==
    IF IngressPort(rule) = -1 THEN "AssertionError"
    ELSE IF IngressPort(rule) \notin {1, 2} THEN "Exception"
    ELSE "NotImplementedError"
\* the rule has no IPV4_DST match that is programmed before it is rejected
NoMatchBeforeRejection(rule) ==
    \/ IngressPort(rule) # 1
    \/ \E i \in 1..Len(rule.fields) :
           /\ rule.fields[i].type \notin SupportedFields
           /\ \A j \in 1..(i - 1) : rule.fields[j].type # "IPV4_DST"
FirstRejected(flows) ==
    LET idx == {i \in 1..Len(flows) : Rejected(flows[i])} IN
    IF idx = {} THEN 0 ELSE CHOOSE i \in idx : \A j \in idx : i <= j

C33_RejectionEndsTheCall ==
    \A t \in TaskIds :
        LET tk == tasks[t]
            r == FirstRejected(tk.flows)
            upto == SubSeq(tk.flows, 1, r)
            before == SubSeq(tk.flows, 1, r - 1)
            sends == SendsOf(tk)
        IN (IsFlows(tk) /\ r # 0 /\ Programmable(before)) =>
            /\ tk.pc # "done"
            \* what was sent was sent for the rules up to the rejected one
            /\ Len(sends) <= Ipv4Matches(upto)
            /\ \A i \in 1..Len(sends) :
                   \E j \in 1..r : \E f \in 1..Len(tk.flows[j].fields) :
                       /\ tk.flows[j].fields[f].type = "IPV4_DST"
                       /\ sends[i].arg =
                              SetRequestTo(tk, Low23Mac(tk.flows[j].fields[f].value))
            \* the call ends with the error of the rejected rule
            /\ (tk.pc = "raised" /\ tk.raised_in = "update_flows_bulk") =>
                   tk.error = RejectionOf(tk.flows[r])
            \* at once when nothing had to be programmed before it, with what
            \* was sent before it otherwise
            /\ (Ipv4Matches(before) = 0 /\ NoMatchBeforeRejection(tk.flows[r])) =>
                   tk.pc = "raised" /\ sends = <<>>
            /\ (tk.pc = "raised" /\ tk.raised_in = "update_flows_bulk"
                  /\ OnlySetResponsesTaken(tk)) =>
                   Len(sends) = SetResponsesTaken(tk)

C33_Witness ==
    \E t \in TaskIds :
        /\ IsFlows(tasks[t])
        /\ tasks[t].flows = <<DownstreamMulticast, OtherPort, DownstreamSsdp>>
        /\ tasks[t].pc = "raised"
        /\ tasks[t].error = "Exception"
        /\ Len(SendsOf(tasks[t])) = 1

(***************************************************************************)
(* C39. In the Get-Value walk, when the attribute that matches the query   *)
(* (the first attribute under the wildcard query) carries a response code  *)
(* (length byte >= 0x80) instead of a value, the walk stops at that        *)
(* attribute and returns failure with value 0 and the cursor advanced by   *)
(* the 4 header bytes only; it does not search the later attributes.       *)
(* Whenever the walk returns failure the value returned is 0.              *)
(***************************************************************************)
C39_ResponseCodeEndsTheWalk ==
    GetWalking =>
        LET attrs == AttrsFrom(parsed.loadstr, parsed.startOfTlvs)
            out == parsed.out
            hits == {i \in 1..Len(attrs) : Asked(attrs[i])}
        IN /\ (out.error = "" /\ ~out.retVal) =>
                  out.value = [type |-> "int", bytes |-> <<>>]
           /\ hits # {} =>
                LET first == CHOOSE i \in hits : \A j \in hits : i <= j IN
                attrs[first].length >= 128 =>
                    /\ out.error = ""
                    /\ ~out.retVal
                    /\ out.value = [type |-> "int", bytes |-> <<>>]
                    /\ out.bytesRead = attrs[first].at + 4
                    /\ out.branch = attrs[first].branch
                    /\ out.leaf = attrs[first].leaf

\* the attribute asked for answers 0x86; the attribute after it has the
\* same branch and leaf and a value, and is not looked at
C39_Witness ==
    /\ GetWalking
    /\ parsed.queryBranch = 215
    /\ parsed.queryLeaf = 1
    /\ parsed.loadstr = <<215, 0, 1, 134, 215, 0, 1, 1, 7>>
    /\ parsed.out = [error |-> "", retVal |-> FALSE, bytesRead |-> 4,
                     value |-> [type |-> "int", bytes |-> <<>>],
                     branch |-> 215, leaf |-> 1]

(***************************************************************************)
(* Registration for proxied messages.                                      *)
(***************************************************************************)
IsReceive == called.op = "receive_proxied_message"

\* the address has an entry in _rx_event_subscriptions: the last call for it
\* was a register
Registered(S, proxy_address) ==
    proxy_address \in S.agent._rx_event_subscriptions

\* C34: a frame the agent receives for an address reaches the adapter
\* exactly once while the address is registered, also after several
\* register calls, and not at all once it is unregistered.
C34_DeliveredOncePerRegistration ==
    IsReceive =>
        called.out = IF Registered(called.before, called.args.proxy_address)
                     THEN 1 ELSE 0

(***************************************************************************)
(* Back-references between peer ports.                                     *)
(***************************************************************************)
Count(seq, x) == Cardinality({i \in 1..Len(seq) : seq[i] = x})

\* how often the port of the data model rp that peer names holds the
\* back-reference to port port_no of device_id
BackReferences(rp, peer, device_id, port_no) ==
    IF HasPort(rp, peer.device_id, peer.port_no)
    THEN Count(rp.ports[peer.device_id][peer.port_no].peers,
               PeerPort(device_id, port_no))
    ELSE 0

\* every peer that an added port names holds the back-reference exactly once
BackReferencedOnce(rp, added) ==
    \A a \in added :
        \A i \in 1..Len(a.port.peers) :
            BackReferences(rp, a.port.peers[i], a.device_id, a.port.port_no)
                = 1

\* C35: after any sequence of add_port and add_port_reference_to_parent
\* calls, every peer port that an added port names holds the back-reference
\* to it exactly once.
C35_BackReferenceExactlyOnce ==
    called.ops \subseteq AddingOps =>
        BackReferencedOnce(root_proxy, called.added)

\* what does hold of one call: the call that ends without an exception
\* leaves the back-reference exactly once in every peer it names, and a peer
\* never holds it twice
C35_AddedOnceByTheCall ==
    (called.op \in AddingOps /\ called.error = "") =>
        \A i \in 1..Len(called.args.port.peers) :
            BackReferences(root_proxy, called.args.port.peers[i],
                           called.args.device_id,
                           called.args.port.port_no) = 1

\* delete_port_reference_from_parent takes the back-reference out of every
\* peer the port names and leaves the other entries of the peer as they were
C35_DeletedByTheCall ==
    (called.op = "delete_port_reference_from_parent" /\ called.error = "") =>
        \A i \in 1..Len(called.args.port.peers) :
            LET peer == called.args.port.peers[i]
                me == PeerPort(called.args.device_id, called.args.port.port_no)
                old == called.before.ports[peer.device_id][peer.port_no].peers
                new == root_proxy.ports[peer.device_id][peer.port_no].peers
            IN /\ Count(new, me) = 0
               /\ new = SelectSeq(old, LAMBDA x : x # me)

(***************************************************************************)
(* Logical devices and their packet-out subscriptions.                     *)
(***************************************************************************)
IsCreate == called.op = "create_logical_device"
IsDelete == called.op = "delete_logical_device" /\ called.error = ""

\* the packet-out subscriptions on the bus for a logical device: a
\* packet-out published for it reaches the adapter once per subscription
PacketOutSubscriptions(S, id) ==
    {sub \in S.agent.subscriptions : sub.topic = id}

Ids(rp) == {rp.logical_devices[k].id : k \in DOMAIN rp.logical_devices}
DatapathIds(rp) ==
    {rp.logical_devices[k].datapath_id : k \in DOMAIN rp.logical_devices}

\* C36: delete_logical_device(L), for a logical device L the agent created
\* and whose packet-out subscription is on the bus, takes exactly the
\* subscription of L off the bus: none is left for L, and those of every
\* other logical device are the ones there were before.
C36_DeleteRemovesItsOwnSubscription ==
    (/\ IsDelete
     /\ PacketOutSubscriptions(called.before,
                               called.args.logical_device.id) # {}) =>
        /\ PacketOutSubscriptions(Here, called.args.logical_device.id) = {}
        /\ \A id \in DOMAIN root_proxy.logical_devices :
               PacketOutSubscriptions(Here, id) =
                   PacketOutSubscriptions(called.before, id)

\* C38: a logical device created without an id gets the smallest positive
\* i that is no datapath id and whose decimal string is no id of an existing
\* logical device, as datapath id and, as a string, as id; ids and datapath
\* ids that were pairwise distinct stay so.
Free(rp, i) == i \notin DatapathIds(rp) /\ ToString(i) \notin Ids(rp)

PairwiseDistinct(rp) ==
    \A a, b \in DOMAIN rp.logical_devices :
        a # b => /\ rp.logical_devices[a].id # rp.logical_devices[b].id
                 /\ rp.logical_devices[a].datapath_id
                        # rp.logical_devices[b].datapath_id

C38_SmallestFreeId ==
    (IsCreate /\ called.args.logical_device.id = "") =>
        LET i == called.out.datapath_id
            before == called.before.root_proxy
        IN /\ i >= 1
           /\ called.out.id = ToString(i)
           /\ Free(before, i)
           /\ \A j \in 1..(i - 1) : ~Free(before, j)
           /\ called.out.id \in DOMAIN root_proxy.logical_devices
           /\ root_proxy.logical_devices[called.out.id] = called.out
           /\ PairwiseDistinct(before) => PairwiseDistinct(root_proxy)

\* a logical device was created without an id while an existing one had
\* the decimal string of a smaller free datapath id as its id
C38_Witness ==
    /\ IsCreate
    /\ called.args.logical_device.id = ""
    /\ called.out.datapath_id = 3
    /\ "2" \in Ids(called.before.root_proxy)
    /\ 2 \notin DatapathIds(called.before.root_proxy)

(***************************************************************************)
(* The core-facing service.                                                *)
(***************************************************************************)
\* C37: every core-facing operation ends after it invoked the adapter's
\* operation of the same name exactly once with the arguments it was given,
\* and ends as that invocation ended: with its result or its exception.
C37_DelegatesExactlyOnce ==
    called.op \in CoreFacingOps =>
        /\ Len(called.out.calls) = 1
        /\ called.out.calls[1].op = called.op
        /\ called.out.calls[1].args = called.args
        /\ called.out.calls[1].error = called.error
        /\ called.out.calls[1].result = called.out.result

\* the eight operations that do delegate
C37_OthersDelegateExactlyOnce ==
    called.op \in CoreFacingOps \ {"update_flows_incrementally"} =>
        /\ Len(called.out.calls) = 1
        /\ called.out.calls[1].op = called.op
        /\ called.out.calls[1].args = called.args
        /\ called.out.calls[1].error = called.error
        /\ called.out.calls[1].result = called.out.result


====
